---------------------------- MODULE Spec2Model ----------------------------
(***************************************************************************)
(* Dual-tone tracking (Barjak/Rankett): the Extended Kalman Filter         *)
(* tracker, the dual second-order PLL tracker and the hybrid EKF-to-PLL    *)
(* coordinator of src/plltest.py, src/plltest2.py and src/test.py.         *)
(*                                                                         *)
(* Numbers.  The program computes in float64.  Here every real quantity of *)
(* the state (phases in rad, angular frequencies in rad/s, frequencies in  *)
(* Hz, amplitudes, samples, gains) is an integer count of 1/SC, and every  *)
(* covariance entry (P, Q, R, S) is an integer count of 1/(SC*SC), the     *)
(* unrounded product of two state-scale numbers.  Products and quotients   *)
(* are rounded to the nearest unit.  sin and cos are evaluated by          *)
(* Bhaskara's rational approximation on the same grid.  Arrays are indexed *)
(* from 0 as in the source (x[1] is w1, P[1][1] is P[1,1]); a History      *)
(* series is a sequence, so history['x'][k] is history.x[k+1].             *)
(***************************************************************************)
EXTENDS Integers, Naturals, Sequences, FiniteSets, TLC

(***************************************************************************)
(* Fixed-point arithmetic                                                  *)
(***************************************************************************)
\* one unit of the state scale: 1.0 is SC
SC == 100

\* np.pi and 2 * np.pi on the state scale
PI == 314

TWO_PI == 2 * PI

\* n / d for d # 0, rounded to the nearest integer (halves upward)
Rnd(n, d) == IF d > 0 THEN (2 * n + d) \div (2 * d)
                      ELSE (2 * (0 - n) + (0 - d)) \div (2 * (0 - d))

\* a * b of two state-scale numbers, or of a covariance and a state-scale number
Mul(a, b) == Rnd(a * b, SC)

\* abs(), np.abs() of a real
Abs(a) == IF a < 0 THEN 0 - a ELSE a

\* np.sign()
Sign(a) == IF a > 0 THEN 1 ELSE IF a < 0 THEN 0 - 1 ELSE 0

\* max(a, b) of two reals
Max(a, b) == IF b > a THEN b ELSE a

\* the largest r with r * r <= v, for v >= 0 (bisection on lo <= r < hi)
RECURSIVE SqrtBisect(_, _, _)
SqrtBisect(v, lo, hi) ==
    IF hi - lo <= 1 THEN lo
    ELSE LET mid == (lo + hi) \div 2
         IN IF mid * mid <= v THEN SqrtBisect(v, mid, hi)
                              ELSE SqrtBisect(v, lo, mid)

\* np.sqrt of v >= 0 where v is a covariance-scale number (or a sum of squares
\* of state-scale numbers); the result is on the state scale
Sqrt(v) == SqrtBisect(v, 0, 46341)

\* np.angle(np.exp(1j * a)): the phase a wrapped into (-pi, pi]
Wrap(a) == ((a + PI - 1) % TWO_PI) - PI + 1

\* sin of a phase 0 <= a <= pi
SinPos(a) == LET t == a * (PI - a)
             IN Rnd(16 * t * SC, 5 * PI * PI - 4 * t)

\* np.sin(a)
Sin(a) == LET w == Wrap(a)
          IN IF w >= 0 THEN SinPos(w) ELSE 0 - SinPos(0 - w)

\* np.cos(a)
Cos(a) == Sin(a + PI \div 2)

(***************************************************************************)
(* Vectors and matrices (np.array), indexed from 0                         *)
(***************************************************************************)
Idx == 0 .. 5

Obs == 0 .. 1

\* an np.array given by its entries, every entry computed once
Array(f) == f @@ << >>

Dot6(a, b) == a[0] * b[0] + a[1] * b[1] + a[2] * b[2] + a[3] * b[3]
              + a[4] * b[4] + a[5] * b[5]

Dot2(a, b) == a[0] * b[0] + a[1] * b[1]

\* M.T of a matrix with six rows
Transpose(M) == Array([j \in DOMAIN M[0] |-> Array([k \in Idx |-> M[k][j]])])

\* np.diag([...]) of a 6-vector
Diag(d) == Array([i \in Idx |-> Array([j \in Idx |-> IF i = j THEN d[i] ELSE 0])])

\* a complex number
Cx(re, im) == [re |-> re, im |-> im]

(***************************************************************************)
(* DualEKFAnalyzer.dual_ekf_tracking: the pieces of one filter step        *)
(***************************************************************************)
\* dt = 1.0 / fs_baseband
TimeStep(fs) == Rnd(SC * SC, fs)

\* min_separation_rad = 2 * np.pi * min_separation_hz
MinSeparationRad(min_separation_hz) == Mul(TWO_PI, min_separation_hz)

\* the state transition matrix F
TransitionMatrix(dt) ==
    Array([i \in Idx |-> Array([j \in Idx |-> IF i = j THEN SC
                        ELSE IF (i = 0 /\ j = 1) \/ (i = 2 /\ j = 3) THEN dt
                        ELSE 0])])

\* the initial state x = [0, 2 pi f1_init, 0, 2 pi f2_init, 1.0, 0.7]
InitialState(f1_init, f2_init) ==
    (0 :> 0) @@ (1 :> Mul(TWO_PI, f1_init)) @@ (2 :> 0)
    @@ (3 :> Mul(TWO_PI, f2_init)) @@ (4 :> SC) @@ (5 :> Rnd(7 * SC, 10))

\* x = F @ x
PredictState(F, x) == Array([i \in Idx |-> Rnd(Dot6(F[i], x), SC)])

\* P = F @ P @ F.T + Q
PredictCov(F, P, Q) ==
    LET PT == Transpose(P)
        FP == Array([i \in Idx |-> Array([j \in Idx |-> Rnd(Dot6(F[i], PT[j]), SC)])])
    IN Array([i \in Idx |-> Array([j \in Idx |-> Rnd(Dot6(FP[i], F[j]), SC) + Q[i][j]])])

\* x[0] = np.angle(np.exp(1j * x[0])); x[2] = np.angle(np.exp(1j * x[2]))
WrapPhases(x) == [x EXCEPT ![0] = Wrap(x[0]), ![2] = Wrap(x[2])]

\* y_hat = A1 * np.exp(1j * phi1) + A2 * np.exp(1j * phi2)
MeasurementPrediction(x) ==
    Cx(Mul(x[4], Cos(x[0])) + Mul(x[5], Cos(x[2])),
       Mul(x[4], Sin(x[0])) + Mul(x[5], Sin(x[2])))

\* the Jacobian H of [Re(y), Im(y)] with respect to the state
Jacobian(x, track_amplitude) ==
    LET re == (0 :> 0 - Mul(x[4], Sin(x[0]))) @@ (1 :> 0)
              @@ (2 :> 0 - Mul(x[5], Sin(x[2]))) @@ (3 :> 0)
              @@ (4 :> IF track_amplitude THEN Cos(x[0]) ELSE 0)
              @@ (5 :> IF track_amplitude THEN Cos(x[2]) ELSE 0)
        im == (0 :> Mul(x[4], Cos(x[0]))) @@ (1 :> 0)
              @@ (2 :> Mul(x[5], Cos(x[2]))) @@ (3 :> 0)
              @@ (4 :> IF track_amplitude THEN Sin(x[0]) ELSE 0)
              @@ (5 :> IF track_amplitude THEN Sin(x[2]) ELSE 0)
    IN (0 :> re) @@ (1 :> im)

\* innov = z - z_hat
Innovation(y, y_hat) == (0 :> y.re - y_hat.re) @@ (1 :> y.im - y_hat.im)

\* P @ H.T
CovTimesHT(P, H) == Array([i \in Idx |-> Array([r \in Obs |-> Rnd(Dot6(P[i], H[r]), SC)])])

\* S = H @ P @ H.T + R * np.eye(2)
InnovationCov(H, P, R) ==
    LET HP == Transpose(CovTimesHT(P, H))
    IN Array([r \in Obs |-> Array([s \in Obs |-> Rnd(Dot6(H[r], HP[s]), SC)
                                                + (IF r = s THEN R ELSE 0)])])

\* the determinant of S: np.linalg.inv(S) raises LinAlgError when S is singular
Det2(S) == S[0][0] * S[1][1] - S[0][1] * S[1][0]

\* K = P @ H.T @ np.linalg.inv(S), for a non-singular S
KalmanGain(P, H, S) ==
    LET PHt == CovTimesHT(P, H)
        adj == (0 :> ((0 :> S[1][1]) @@ (1 :> 0 - S[0][1])))
               @@ (1 :> ((0 :> 0 - S[1][0]) @@ (1 :> S[0][0])))
    IN Array([i \in Idx |-> Array([r \in Obs |-> Rnd(SC * (PHt[i][0] * adj[0][r] + PHt[i][1] * adj[1][r]), Det2(S))])])

\* x = x + K @ innov
StateUpdate(x, K, innov) == Array([i \in Idx |-> x[i] + Rnd(Dot2(K[i], innov), SC)])

\* force = separation_weight * (min_separation_rad - separation) / min_separation_rad
RegularizationForce(separation, min_separation_rad, separation_weight) ==
    Rnd(separation_weight * (min_separation_rad - separation), min_separation_rad)

\* the regularizer without its guard `if separation < min_separation_rad`:
\* the push and the covariance inflation applied at every separation
SeparationRegularizerUnguarded(x, P, f1_init, f2_init, min_separation_rad, separation_weight) ==
    LET separation == Abs(x[3] - x[1])
        sign0 == Sign(x[3] - x[1])
        sign == IF sign0 = 0 THEN Sign(f2_init - f1_init) ELSE sign0
        force == RegularizationForce(separation, min_separation_rad, separation_weight)
        push == Rnd(force * min_separation_rad * sign, 2 * SC)
    IN [x |-> [x EXCEPT ![1] = x[1] - push, ![3] = x[3] + push],
        P |-> [P EXCEPT ![1][1] = Rnd(P[1][1] * (SC + force), SC),
                        ![3][3] = Rnd(P[3][3] * (SC + force), SC)]]

\* the regularizer inflating the phase variances P[0,0], P[2,2] instead of
\* the frequency variances P[1,1], P[3,3]
SeparationRegularizerPhaseVariance(x, P, f1_init, f2_init, min_separation_rad, separation_weight) ==
    LET separation == Abs(x[3] - x[1])
        sign0 == Sign(x[3] - x[1])
        sign == IF sign0 = 0 THEN Sign(f2_init - f1_init) ELSE sign0
        force == RegularizationForce(separation, min_separation_rad, separation_weight)
        push == Rnd(force * min_separation_rad * sign, 2 * SC)
    IN IF separation < min_separation_rad
       THEN [x |-> [x EXCEPT ![1] = x[1] - push, ![3] = x[3] + push],
             P |-> [P EXCEPT ![0][0] = Rnd(P[0][0] * (SC + force), SC),
                             ![2][2] = Rnd(P[2][2] * (SC + force), SC)]]
       ELSE [x |-> x, P |-> P]

\* the regularizer taking tone 2 for the upper one when neither the updated
\* frequencies nor the initial guesses order the tones
SeparationRegularizerDefaultOrder(x, P, f1_init, f2_init, min_separation_rad, separation_weight) ==
    LET separation == Abs(x[3] - x[1])
        sign0 == Sign(x[3] - x[1])
        sign1 == IF sign0 = 0 THEN Sign(f2_init - f1_init) ELSE sign0
        sign == IF sign1 = 0 THEN 1 ELSE sign1
        force == RegularizationForce(separation, min_separation_rad, separation_weight)
        push == Rnd(force * min_separation_rad * sign, 2 * SC)
    IN IF separation < min_separation_rad
       THEN [x |-> [x EXCEPT ![1] = x[1] - push, ![3] = x[3] + push],
             P |-> [P EXCEPT ![1][1] = Rnd(P[1][1] * (SC + force), SC),
                             ![3][3] = Rnd(P[3][3] * (SC + force), SC)]]
       ELSE [x |-> x, P |-> P]

\* the separation regularizer of the EKF: the state and covariance after
\* `if separation < min_separation_rad: ...`
SeparationRegularizer(x, P, f1_init, f2_init, min_separation_rad, separation_weight) ==
    LET separation == Abs(x[3] - x[1])
        sign0 == Sign(x[3] - x[1])
        sign == IF sign0 = 0 THEN Sign(f2_init - f1_init) ELSE sign0
        force == RegularizationForce(separation, min_separation_rad, separation_weight)
        push == Rnd(force * min_separation_rad * sign, 2 * SC)
    IN IF separation < min_separation_rad
       THEN [x |-> [x EXCEPT ![1] = x[1] - push, ![3] = x[3] + push],
             P |-> [P EXCEPT ![1][1] = Rnd(P[1][1] * (SC + force), SC),
                             ![3][3] = Rnd(P[3][3] * (SC + force), SC)]]
       ELSE [x |-> x, P |-> P]

\* P = (np.eye(len(x)) - K @ H) @ P
CovUpdate(K, H, P) ==
    LET IKH == Array([i \in Idx |-> Array([j \in Idx |-> (IF i = j THEN SC ELSE 0)
                                   - Rnd(K[i][0] * H[0][j] + K[i][1] * H[1][j], SC)])])
        PT == Transpose(P)
    IN Array([i \in Idx |-> Array([j \in Idx |-> Rnd(Dot6(IKH[i], PT[j]), SC)])])

\* the amplitude floor 0.1
AmpFloor == 10

\* the step without lines 177-179: the amplitudes as the update left them
AmplitudeUnfloored(x, track_amplitude) == x

\* x[4] = max(0.1, x[4]); x[5] = max(0.1, x[5]) when amplitudes are tracked
AmplitudeFloor(x, track_amplitude) ==
    IF track_amplitude
    THEN [x EXCEPT ![4] = Max(AmpFloor, x[4]), ![5] = Max(AmpFloor, x[5])]
    ELSE x

\* |y - y_hat|
CxAbs(re, im) == Sqrt(re * re + im * im)

\* w / (2 * np.pi): an angular frequency in Hz
ToHz(w) == Rnd(w * SC, TWO_PI)

(***************************************************************************)
(* Python values                                                           *)
(***************************************************************************)
\* an optional argument: None, or the value given
None == << >>

Some(v) == << v >>

\* a[-m:] for m >= 0: the last m entries, and the whole of a when m = 0
\* or m > len(a)
LastSlice(a, m) ==
    IF m = 0 \/ m >= Len(a) THEN a ELSE SubSeq(a, Len(a) - m + 1, Len(a))

RECURSIVE SeqSum(_)
SeqSum(a) == IF a = << >> THEN 0 ELSE Head(a) + SeqSum(Tail(a))

\* np.mean(a) of a non-empty array
Mean(a) == Rnd(SeqSum(a), Len(a))

\* the window rounded down: the last max(1, n_samples // 4) entries
FinalWindowRoundedDown(a, n_samples) == LastSlice(a, Max(1, n_samples \div 4))

\* the window of the final estimates: history[key][-n_samples//4:], where
\* -n_samples//4 is floor(-n_samples / 4)
FinalWindow(a, n_samples) == LastSlice(a, 0 - ((0 - n_samples) \div 4))

(***************************************************************************)
(* dual_ekf_tracking: defaults, History and the result                     *)
(***************************************************************************)
\* sigma_phi = 1e-6, sigma_w = 1e-3, sigma_A = 1e-4: each below one unit
DefaultQ ==
    LET sigma_phi == Rnd(SC, 1000000)
        sigma_w == Rnd(SC, 1000)
        sigma_A == Rnd(SC, 10000)
    IN Diag((0 :> sigma_phi * sigma_phi) @@ (1 :> sigma_w * sigma_w)
            @@ (2 :> sigma_phi * sigma_phi) @@ (3 :> sigma_w * sigma_w)
            @@ (4 :> sigma_A * sigma_A) @@ (5 :> sigma_A * sigma_A))

\* R = 0.01**2
DefaultR == Rnd(SC, 100) * Rnd(SC, 100)

\* P0 = np.diag([0.1, 0.1, 0.1, 0.1, 0.01, 0.01])
DefaultP0 ==
    Diag((0 :> Rnd(SC * SC, 10)) @@ (1 :> Rnd(SC * SC, 10))
         @@ (2 :> Rnd(SC * SC, 10)) @@ (3 :> Rnd(SC * SC, 10))
         @@ (4 :> Rnd(SC * SC, 100)) @@ (5 :> Rnd(SC * SC, 100)))

\* the keys of the EKF's history dict, in insertion order
EKFHistoryKeys ==
    << "x", "P", "y_pred", "innov", "freq1", "freq2", "A1", "A2",
       "phase1", "phase2", "separation", "error", "K" >>

\* history = {...}: the seed entry of the initial conditions
EKFSeedHistory(x, P, f1_init, f2_init) ==
    [x |-> << x >>, P |-> << P >>, y_pred |-> << >>, innov |-> << >>,
     freq1 |-> << f1_init >>, freq2 |-> << f2_init >>,
     A1 |-> << x[4] >>, A2 |-> << x[5] >>,
     phase1 |-> << x[0] >>, phase2 |-> << x[2] >>,
     separation |-> << Abs(f2_init - f1_init) >>,
     error |-> << >>, K |-> << >>]

\* the appends with history['separation'].append(...) left out
EKFAppendHistoryNoSeparation(h, x, P, y, y_hat, innov, K) ==
    [x |-> Append(h.x, x), P |-> Append(h.P, P),
     y_pred |-> Append(h.y_pred, y_hat), innov |-> Append(h.innov, innov),
     freq1 |-> Append(h.freq1, ToHz(x[1])), freq2 |-> Append(h.freq2, ToHz(x[3])),
     A1 |-> Append(h.A1, x[4]), A2 |-> Append(h.A2, x[5]),
     phase1 |-> Append(h.phase1, x[0]), phase2 |-> Append(h.phase2, x[2]),
     separation |-> h.separation,
     error |-> Append(h.error, CxAbs(y.re - y_hat.re, y.im - y_hat.im)),
     K |-> Append(h.K, K)]

\* the appends with x and P stored without .copy() and updated in place: the
\* entry appended by the step before is the same array, and changes with it
EKFAppendHistoryShared(h, x, P, y, y_hat, innov, K) ==
    [x |-> Append([h.x EXCEPT ![Len(h.x)] = x], x),
     P |-> Append([h.P EXCEPT ![Len(h.P)] = P], P),
     y_pred |-> Append(h.y_pred, y_hat), innov |-> Append(h.innov, innov),
     freq1 |-> Append(h.freq1, ToHz(x[1])), freq2 |-> Append(h.freq2, ToHz(x[3])),
     A1 |-> Append(h.A1, x[4]), A2 |-> Append(h.A2, x[5]),
     phase1 |-> Append(h.phase1, x[0]), phase2 |-> Append(h.phase2, x[2]),
     separation |-> Append(h.separation, ToHz(Abs(x[3] - x[1]))),
     error |-> Append(h.error, CxAbs(y.re - y_hat.re, y.im - y_hat.im)),
     K |-> Append(h.K, K)]

\* history[...].append(...) at the end of a step
EKFAppendHistory(h, x, P, y, y_hat, innov, K) ==
    [x |-> Append(h.x, x), P |-> Append(h.P, P),
     y_pred |-> Append(h.y_pred, y_hat), innov |-> Append(h.innov, innov),
     freq1 |-> Append(h.freq1, ToHz(x[1])), freq2 |-> Append(h.freq2, ToHz(x[3])),
     A1 |-> Append(h.A1, x[4]), A2 |-> Append(h.A2, x[5]),
     phase1 |-> Append(h.phase1, x[0]), phase2 |-> Append(h.phase2, x[2]),
     separation |-> Append(h.separation, ToHz(Abs(x[3] - x[1]))),
     error |-> Append(h.error, CxAbs(y.re - y_hat.re, y.im - y_hat.im)),
     K |-> Append(h.K, K)]

\* the returned dict: the means over the last quarter, and the history
TrackingResult(history, n_samples) ==
    LET converged_f1 == Mean(FinalWindow(history.freq1, n_samples))
        converged_f2 == Mean(FinalWindow(history.freq2, n_samples))
    IN [f1 |-> converged_f1, f2 |-> converged_f2,
        beat |-> converged_f2 - converged_f1,
        A1 |-> Mean(FinalWindow(history.A1, n_samples)),
        A2 |-> Mean(FinalWindow(history.A2, n_samples)),
        history |-> history]

\* the pass with the regularizer moved behind the covariance update: it
\* scales the variances of the updated covariance
EKFStepRegularizedLast(x, P, y, F, Q, R, track_amplitude, f1_init, f2_init, min_separation_rad, separation_weight) ==
    LET xp == WrapPhases(PredictState(F, x))
        Pp == PredictCov(F, P, Q)
        y_hat == MeasurementPrediction(xp)
        H == Jacobian(xp, track_amplitude)
        innov == Innovation(y, y_hat)
        S == InnovationCov(H, Pp, R)
        K == KalmanGain(Pp, H, S)
        updated == [x |-> StateUpdate(xp, K, innov), P |-> CovUpdate(K, H, Pp)]
        reg == SeparationRegularizer(updated.x, updated.P, f1_init, f2_init,
                                     min_separation_rad, separation_weight)
    IN IF Det2(S) = 0
       THEN [raised |-> "LinAlgError"]
       ELSE [raised |-> "", x |-> AmplitudeFloor(reg.x, track_amplitude),
             P |-> reg.P, y_hat |-> y_hat, innov |-> innov, K |-> K,
             regularizer |-> [before |-> updated, after |-> reg]]

\* one pass of the main EKF loop on sample y, from state x and covariance P:
\* the values at the end of the pass (with x and P as they were just before
\* and just after the separation regularizer), or the exception it raises
EKFStep(x, P, y, F, Q, R, track_amplitude, f1_init, f2_init, min_separation_rad, separation_weight) ==
    LET xp == WrapPhases(PredictState(F, x))
        Pp == PredictCov(F, P, Q)
        y_hat == MeasurementPrediction(xp)
        H == Jacobian(xp, track_amplitude)
        innov == Innovation(y, y_hat)
        S == InnovationCov(H, Pp, R)
        K == KalmanGain(Pp, H, S)
        updated == [x |-> StateUpdate(xp, K, innov), P |-> Pp]
        reg == SeparationRegularizer(updated.x, updated.P, f1_init, f2_init,
                                     min_separation_rad, separation_weight)
    IN IF Det2(S) = 0
       THEN [raised |-> "LinAlgError"]
       ELSE [raised |-> "", x |-> AmplitudeFloor(reg.x, track_amplitude),
             P |-> CovUpdate(K, H, reg.P), y_hat |-> y_hat, innov |-> innov, K |-> K,
             regularizer |-> [before |-> updated, after |-> reg]]

(***************************************************************************)
(* The dual PLL: DualEKFAnalyzer._dual_pll_tracking (src/plltest2.py) and  *)
(* DualPLLAnalyzer.dual_pll_with_tracking (src/test.py).  impl names the   *)
(* implementation: "plltest2" or "test".                                   *)
(***************************************************************************)
CxAdd(a, b) == Cx(a.re + b.re, a.im + b.im)

CxSub(a, b) == Cx(a.re - b.re, a.im - b.im)

CxMul(a, b) == Cx(Rnd(a.re * b.re - a.im * b.im, SC), Rnd(a.re * b.im + a.im * b.re, SC))

\* np.conj(a)
CxConj(a) == Cx(a.re, 0 - a.im)

\* a * 1j
CxTimesI(a) == Cx(0 - a.im, a.re)

\* a real as a complex number
CxReal(a) == Cx(a, 0)

\* np.exp(1j * phase)
NCO(phase) == Cx(Cos(phase), Sin(phase))

\* theta, d, g1, g2 from the loop bandwidth, with damping = 1.0
LoopGains(loop_bw, fs) ==
    LET damping == SC
        theta == Rnd(Mul(TWO_PI, loop_bw) * SC, fs)
        d == SC + Mul(2 * damping, theta) + Mul(theta, theta)
    IN [g1 |-> Rnd(Mul(4 * damping, theta) * SC, d),
        g2 |-> Rnd(4 * Mul(theta, theta) * SC, d)]

\* loop_bw: 0.5 Hz for a cold start, 0.2 Hz after a handoff
ColdLoopBw == 50

HandoffLoopBw == 20

\* freq_regularization = 0.1, amplitude_regularization = 0.1, learning_rate = 0.01
FreqRegularization == 10

AmplitudeRegularization == 10

LearningRate == 1

\* the nominal amplitude toward which A2 is pulled: 0.7 in plltest2, 1.0 in test
NominalA2(impl) == IF impl = "plltest2" THEN Rnd(7 * SC, 10) ELSE SC

\* the separation regularizer of the PLL: the two phase errors after
\* `if separation < min_separation: ...`, and reg_force
PLLRegularizer(phase_error1, phase_error2, freq1, freq2, min_separation, freq_regularization) ==
    LET separation == Abs(freq2 - freq1)
        reg_force == Rnd(freq_regularization * (min_separation - separation), min_separation)
    IN IF separation < min_separation
       THEN IF freq2 > freq1
            THEN [e1 |-> phase_error1 - reg_force, e2 |-> phase_error2 + reg_force,
                  reg_force |-> reg_force]
            ELSE [e1 |-> phase_error1 + reg_force, e2 |-> phase_error2 - reg_force,
                  reg_force |-> reg_force]
       ELSE [e1 |-> phase_error1, e2 |-> phase_error2, reg_force |-> 0]

\* the amplitude gradient step and the floor at 0.1
PLLAmplitudeUpdate(A, nominal, error, nco) ==
    LET dA == 0 - 2 * CxMul(CxConj(error), nco).re
              + Mul(AmplitudeRegularization, A - nominal)
    IN Max(AmpFloor, A - Mul(LearningRate, dA))

\* history = {...}: the seed entry
PLLSeedHistory(impl, freq1, freq2, A1, A2, phase1, phase2) ==
    LET h == [freq1 |-> << freq1 >>, freq2 |-> << freq2 >>,
              A1 |-> << A1 >>, A2 |-> << A2 >>,
              phase1 |-> << phase1 >>, phase2 |-> << phase2 >>,
              separation |-> << Abs(freq2 - freq1) >>, error |-> << >>,
              phase_error1 |-> << >>, phase_error2 |-> << >>]
    IN IF impl = "test" THEN h @@ [reg_force |-> << >>] ELSE h

\* the pass with the loop filter built on the current frequencies instead of
\* the initial ones: freq_i = freq_i + g1 * e_i + g2 * integral_i
PLLStepFromCurrentFrequency(impl, s, sample, f1_init, f2_init, gains, fs, track_amplitude, min_separation) ==
    LET nco1 == NCO(s.phase1)
        nco2 == NCO(s.phase2)
        correlate == impl = "test" /\ ~track_amplitude
        a1 == IF correlate THEN CxMul(sample, CxConj(nco1)) ELSE CxReal(s.A1)
        a2 == IF correlate THEN CxMul(sample, CxConj(nco2)) ELSE CxReal(s.A2)
        signal_est == CxAdd(CxMul(a1, nco1), CxMul(a2, nco2))
        error == CxSub(sample, signal_est)
        phase_error1 == CxMul(CxMul(CxTimesI(CxConj(error)), a1), nco1).re
        phase_error2 == CxMul(CxMul(CxTimesI(CxConj(error)), a2), nco2).re
        reg == PLLRegularizer(phase_error1, phase_error2, s.freq1, s.freq2,
                              min_separation, FreqRegularization)
        integral1 == s.phase_error1_integral + reg.e1
        integral2 == s.phase_error2_integral + reg.e2
        freq1 == s.freq1 + Mul(gains.g1, reg.e1) + Mul(gains.g2, integral1)
        freq2 == s.freq2 + Mul(gains.g1, reg.e2) + Mul(gains.g2, integral2)
        phase1 == Wrap(s.phase1 + Rnd(Mul(TWO_PI, freq1) * SC, fs))
        phase2 == Wrap(s.phase2 + Rnd(Mul(TWO_PI, freq2) * SC, fs))
        A1 == IF track_amplitude THEN PLLAmplitudeUpdate(s.A1, SC, error, nco1) ELSE s.A1
        A2 == IF track_amplitude
              THEN PLLAmplitudeUpdate(s.A2, NominalA2(impl), error, nco2) ELSE s.A2
        h == s.history
        h1 == [h EXCEPT !.error = Append(@, CxAbs(error.re, error.im)),
                        !.phase_error1 = Append(@, phase_error1),
                        !.phase_error2 = Append(@, phase_error2),
                        !.freq1 = Append(@, freq1), !.freq2 = Append(@, freq2),
                        !.A1 = Append(@, A1), !.A2 = Append(@, A2),
                        !.phase1 = Append(@, phase1), !.phase2 = Append(@, phase2),
                        !.separation = Append(@, Abs(freq2 - freq1))]
    IN [phase1 |-> phase1, phase2 |-> phase2, freq1 |-> freq1, freq2 |-> freq2,
        A1 |-> A1, A2 |-> A2,
        phase_error1_integral |-> integral1, phase_error2_integral |-> integral2,
        regularizer |-> Some([freq1 |-> s.freq1, freq2 |-> s.freq2,
                              before |-> [e1 |-> phase_error1, e2 |-> phase_error2],
                              after |-> [e1 |-> reg.e1, e2 |-> reg.e2]]),
        history |-> IF impl = "test"
                    THEN [h1 EXCEPT !.reg_force = Append(@, reg.reg_force)] ELSE h1]

\* the pass with the amplitudes A1, A2 in the estimate and the discriminants
\* of both implementations, whether or not the amplitudes are tracked
PLLStepFixedAmplitudes(impl, s, sample, f1_init, f2_init, gains, fs, track_amplitude, min_separation) ==
    LET nco1 == NCO(s.phase1)
        nco2 == NCO(s.phase2)
        a1 == CxReal(s.A1)
        a2 == CxReal(s.A2)
        signal_est == CxAdd(CxMul(a1, nco1), CxMul(a2, nco2))
        error == CxSub(sample, signal_est)
        phase_error1 == CxMul(CxMul(CxTimesI(CxConj(error)), a1), nco1).re
        phase_error2 == CxMul(CxMul(CxTimesI(CxConj(error)), a2), nco2).re
        reg == PLLRegularizer(phase_error1, phase_error2, s.freq1, s.freq2,
                              min_separation, FreqRegularization)
        integral1 == s.phase_error1_integral + reg.e1
        integral2 == s.phase_error2_integral + reg.e2
        freq1 == f1_init + Mul(gains.g1, reg.e1) + Mul(gains.g2, integral1)
        freq2 == f2_init + Mul(gains.g1, reg.e2) + Mul(gains.g2, integral2)
        phase1 == Wrap(s.phase1 + Rnd(Mul(TWO_PI, freq1) * SC, fs))
        phase2 == Wrap(s.phase2 + Rnd(Mul(TWO_PI, freq2) * SC, fs))
        A1 == IF track_amplitude THEN PLLAmplitudeUpdate(s.A1, SC, error, nco1) ELSE s.A1
        A2 == IF track_amplitude
              THEN PLLAmplitudeUpdate(s.A2, NominalA2(impl), error, nco2) ELSE s.A2
        h == s.history
        h1 == [h EXCEPT !.error = Append(@, CxAbs(error.re, error.im)),
                        !.phase_error1 = Append(@, phase_error1),
                        !.phase_error2 = Append(@, phase_error2),
                        !.freq1 = Append(@, freq1), !.freq2 = Append(@, freq2),
                        !.A1 = Append(@, A1), !.A2 = Append(@, A2),
                        !.phase1 = Append(@, phase1), !.phase2 = Append(@, phase2),
                        !.separation = Append(@, Abs(freq2 - freq1))]
    IN [phase1 |-> phase1, phase2 |-> phase2, freq1 |-> freq1, freq2 |-> freq2,
        A1 |-> A1, A2 |-> A2,
        phase_error1_integral |-> integral1, phase_error2_integral |-> integral2,
        regularizer |-> Some([freq1 |-> s.freq1, freq2 |-> s.freq2,
                              before |-> [e1 |-> phase_error1, e2 |-> phase_error2],
                              after |-> [e1 |-> reg.e1, e2 |-> reg.e2]]),
        history |-> IF impl = "test"
                    THEN [h1 EXCEPT !.reg_force = Append(@, reg.reg_force)] ELSE h1]

\* one pass of the PLL loop on `sample`: the loop variables and the history
\* at the end of the pass (with the phase errors as they were just before and
\* just after the separation regularizer)
PLLStep(impl, s, sample, f1_init, f2_init, gains, fs, track_amplitude, min_separation) ==
    LET nco1 == NCO(s.phase1)
        nco2 == NCO(s.phase2)
        correlate == impl = "test" /\ ~track_amplitude
        a1 == IF correlate THEN CxMul(sample, CxConj(nco1)) ELSE CxReal(s.A1)
        a2 == IF correlate THEN CxMul(sample, CxConj(nco2)) ELSE CxReal(s.A2)
        signal_est == CxAdd(CxMul(a1, nco1), CxMul(a2, nco2))
        error == CxSub(sample, signal_est)
        phase_error1 == CxMul(CxMul(CxTimesI(CxConj(error)), a1), nco1).re
        phase_error2 == CxMul(CxMul(CxTimesI(CxConj(error)), a2), nco2).re
        reg == PLLRegularizer(phase_error1, phase_error2, s.freq1, s.freq2,
                              min_separation, FreqRegularization)
        integral1 == s.phase_error1_integral + reg.e1
        integral2 == s.phase_error2_integral + reg.e2
        freq1 == f1_init + Mul(gains.g1, reg.e1) + Mul(gains.g2, integral1)
        freq2 == f2_init + Mul(gains.g1, reg.e2) + Mul(gains.g2, integral2)
        phase1 == Wrap(s.phase1 + Rnd(Mul(TWO_PI, freq1) * SC, fs))
        phase2 == Wrap(s.phase2 + Rnd(Mul(TWO_PI, freq2) * SC, fs))
        A1 == IF track_amplitude THEN PLLAmplitudeUpdate(s.A1, SC, error, nco1) ELSE s.A1
        A2 == IF track_amplitude
              THEN PLLAmplitudeUpdate(s.A2, NominalA2(impl), error, nco2) ELSE s.A2
        h == s.history
        h1 == [h EXCEPT !.error = Append(@, CxAbs(error.re, error.im)),
                        !.phase_error1 = Append(@, phase_error1),
                        !.phase_error2 = Append(@, phase_error2),
                        !.freq1 = Append(@, freq1), !.freq2 = Append(@, freq2),
                        !.A1 = Append(@, A1), !.A2 = Append(@, A2),
                        !.phase1 = Append(@, phase1), !.phase2 = Append(@, phase2),
                        !.separation = Append(@, Abs(freq2 - freq1))]
    IN [phase1 |-> phase1, phase2 |-> phase2, freq1 |-> freq1, freq2 |-> freq2,
        A1 |-> A1, A2 |-> A2,
        phase_error1_integral |-> integral1, phase_error2_integral |-> integral2,
        regularizer |-> Some([freq1 |-> s.freq1, freq2 |-> s.freq2,
                              before |-> [e1 |-> phase_error1, e2 |-> phase_error2],
                              after |-> [e1 |-> reg.e1, e2 |-> reg.e2]]),
        history |-> IF impl = "test"
                    THEN [h1 EXCEPT !.reg_force = Append(@, reg.reg_force)] ELSE h1]

\* the dict a PLL run returns (test returns no A1, A2)
PLLResult(impl, history, n_samples) ==
    LET r == TrackingResult(history, n_samples)
    IN IF impl = "test"
       THEN [f1 |-> r.f1, f2 |-> r.f2, beat |-> r.beat, history |-> history]
       ELSE r

(***************************************************************************)
(* The state: the analyzer object, the caller's arguments, and one frame   *)
(* per function of the program that is running                             *)
(***************************************************************************)
VARIABLES
    analyzer,   \* self: [fs, dt]
    args,       \* the arguments of the caller's call, its arrays included
    top,        \* the caller: the calls made so far and what each returned
    ekf,        \* the frame of dual_ekf_tracking
    pll,        \* the frame of _dual_pll_tracking / dual_pll_with_tracking
    hyb,        \* the frame of hybrid_ekf_pll_tracking
    other       \* the caller and frames of a second thread, while it is suspended

vars == << analyzer, args, top, ekf, pll, hyb, other >>

\* no second thread
NoThread == [pc |-> "none"]

\* a function that is not running
Idle == [pc |-> "idle"]

\* a[:m] and a[m:] for 0 <= m
SliceTo(a, m) == SubSeq(a, 1, IF m > Len(a) THEN Len(a) ELSE m)

\* the slice a[m:] dropped: the whole of a
NoSliceFrom(a, m) == a

SliceFrom(a, m) == SubSeq(a, (IF m > Len(a) THEN Len(a) ELSE m) + 1, Len(a))

\* dual_ekf_tracking keeping x and P on the analyzer between calls: a second
\* call starts from the state and covariance the call before it ended with
dual_ekf_tracking_resumed(self, signal_data, f1_init, f2_init, Q, R, P0, track_amplitude, min_separation_hz, separation_weight) ==
    LET before == IF top.returned # << >> /\ top.returned[Len(top.returned)].raised = ""
                  THEN Some(top.returned[Len(top.returned)].result.history) ELSE None
        x == IF before = None THEN InitialState(f1_init, f2_init)
             ELSE before[1].x[Len(before[1].x)]
        P == IF before # None THEN before[1].P[Len(before[1].P)]
             ELSE IF P0 = None THEN DefaultP0 ELSE P0[1]
    IN [pc |-> "loop",
        signal_data |-> signal_data,
        n_samples |-> Len(signal_data),
        f1_init |-> f1_init, f2_init |-> f2_init,
        F |-> TransitionMatrix(self.dt),
        Q |-> IF Q = None THEN DefaultQ ELSE Q[1],
        R |-> IF R = None THEN DefaultR ELSE R[1],
        track_amplitude |-> track_amplitude,
        min_separation_rad |-> MinSeparationRad(min_separation_hz),
        separation_weight |-> separation_weight,
        k |-> 0, x |-> x, P |-> P, regularizer |-> None,
        history |-> EKFSeedHistory(x, P, f1_init, f2_init)]

\* dual_ekf_tracking(signal_data, f1_init, f2_init, Q, R, P0, track_amplitude,
\* min_separation_hz, separation_weight): the frame on entering the main loop
dual_ekf_tracking(self, signal_data, f1_init, f2_init, Q, R, P0, track_amplitude, min_separation_hz, separation_weight) ==
    LET x == InitialState(f1_init, f2_init)
        P == IF P0 = None THEN DefaultP0 ELSE P0[1]
    IN [pc |-> "loop",
        signal_data |-> signal_data,
        n_samples |-> Len(signal_data),
        f1_init |-> f1_init, f2_init |-> f2_init,
        F |-> TransitionMatrix(self.dt),
        Q |-> IF Q = None THEN DefaultQ ELSE Q[1],
        R |-> IF R = None THEN DefaultR ELSE R[1],
        track_amplitude |-> track_amplitude,
        min_separation_rad |-> MinSeparationRad(min_separation_hz),
        separation_weight |-> separation_weight,
        k |-> 0, x |-> x, P |-> P, regularizer |-> None,
        history |-> EKFSeedHistory(x, P, f1_init, f2_init)]

\* the main loop with x and P kept on the analyzer instead of in locals: a
\* pass starts from the x and P that the other thread's pass wrote last
EKFLoopSharedState ==
    /\ ekf.pc = "loop"
    /\ ekf.k < ekf.n_samples
    /\ LET shared == other # NoThread /\ other.ekf.pc = "loop"
           y == ekf.signal_data[ekf.k + 1]
           st == EKFStep(IF shared THEN other.ekf.x ELSE ekf.x,
                         IF shared THEN other.ekf.P ELSE ekf.P,
                         y, ekf.F, ekf.Q, ekf.R, ekf.track_amplitude,
                         ekf.f1_init, ekf.f2_init, ekf.min_separation_rad,
                         ekf.separation_weight)
       IN ekf' = IF st.raised # ""
                 THEN [pc |-> "raised", raised |-> st.raised]
                 ELSE [ekf EXCEPT !.k = @ + 1, !.x = st.x, !.P = st.P,
                                  !.regularizer = Some(st.regularizer),
                                  !.history = EKFAppendHistory(@, st.x, st.P, y, st.y_hat,
                                                               st.innov, st.K)]
    /\ UNCHANGED << other, analyzer, args, top, pll, hyb >>

\* the main loop filtering, at step k, the sample after the k-th where there
\* is one
EKFLoopLookahead ==
    /\ ekf.pc = "loop"
    /\ ekf.k < ekf.n_samples
    /\ LET y == ekf.signal_data[IF ekf.k + 2 <= ekf.n_samples THEN ekf.k + 2
                                ELSE ekf.k + 1]
           st == EKFStep(ekf.x, ekf.P, y, ekf.F, ekf.Q, ekf.R, ekf.track_amplitude,
                         ekf.f1_init, ekf.f2_init, ekf.min_separation_rad,
                         ekf.separation_weight)
       IN ekf' = IF st.raised # ""
                 THEN [pc |-> "raised", raised |-> st.raised]
                 ELSE [ekf EXCEPT !.k = @ + 1, !.x = st.x, !.P = st.P,
                                  !.regularizer = Some(st.regularizer),
                                  !.history = EKFAppendHistory(@, st.x, st.P, y, st.y_hat,
                                                               st.innov, st.K)]
    /\ UNCHANGED << other, analyzer, args, top, pll, hyb >>

\* for k, y in enumerate(signal_data): one pass of the main EKF loop
EKFLoop ==
    /\ ekf.pc = "loop"
    /\ ekf.k < ekf.n_samples
    /\ LET y == ekf.signal_data[ekf.k + 1]
           st == EKFStep(ekf.x, ekf.P, y, ekf.F, ekf.Q, ekf.R, ekf.track_amplitude,
                         ekf.f1_init, ekf.f2_init, ekf.min_separation_rad,
                         ekf.separation_weight)
       IN ekf' = IF st.raised # ""
                 THEN [pc |-> "raised", raised |-> st.raised]
                 ELSE [ekf EXCEPT !.k = @ + 1, !.x = st.x, !.P = st.P,
                                  !.regularizer = Some(st.regularizer),
                                  !.history = EKFAppendHistory(@, st.x, st.P, y, st.y_hat,
                                                               st.innov, st.K)]
    /\ UNCHANGED << other, analyzer, args, top, pll, hyb >>

\* the end of the loop: the final estimates and `return`
EKFReturn ==
    /\ ekf.pc = "loop"
    /\ ekf.k = ekf.n_samples
    /\ ekf' = [pc |-> "returned", result |-> TrackingResult(ekf.history, ekf.n_samples)]
    /\ UNCHANGED << other, analyzer, args, top, pll, hyb >>

\* a PLL call: the frame on entering the loop
dual_pll_tracking(impl, self, signal_data, f1_init, f2_init, phi1_init, phi2_init, A1_init, A2_init, track_amplitude, min_separation_hz, loop_bw) ==
    [pc |-> "loop", impl |-> impl,
     signal_data |-> signal_data,
     n_samples |-> Len(signal_data),
     f1_init |-> f1_init, f2_init |-> f2_init,
     track_amplitude |-> track_amplitude,
     min_separation |-> min_separation_hz,
     loop_bw |-> loop_bw,
     gains |-> LoopGains(loop_bw, self.fs),
     i |-> 0,
     s |-> [phase1 |-> phi1_init, phase2 |-> phi2_init,
            freq1 |-> f1_init, freq2 |-> f2_init, A1 |-> A1_init, A2 |-> A2_init,
            phase_error1_integral |-> 0, phase_error2_integral |-> 0,
            regularizer |-> None,
            history |-> PLLSeedHistory(impl, f1_init, f2_init, A1_init, A2_init,
                                       phi1_init, phi2_init)]]

\* for i, sample in enumerate(signal_data): one pass of the PLL loop
PLLLoop ==
    /\ pll.pc = "loop"
    /\ pll.i < pll.n_samples
    /\ pll' = [pll EXCEPT !.i = @ + 1,
                          !.s = PLLStep(pll.impl, @, pll.signal_data[pll.i + 1],
                                        pll.f1_init, pll.f2_init, pll.gains, analyzer.fs,
                                        pll.track_amplitude, pll.min_separation)]
    /\ UNCHANGED << other, analyzer, args, top, ekf, hyb >>

\* the end of the PLL loop: the final estimates and `return`
PLLReturn ==
    /\ pll.pc = "loop"
    /\ pll.i = pll.n_samples
    /\ pll' = [pc |-> "returned", impl |-> pll.impl, loop_bw |-> pll.loop_bw,
               result |-> PLLResult(pll.impl, pll.s.history, pll.n_samples)]
    /\ UNCHANGED << other, analyzer, args, top, ekf, hyb >>

(***************************************************************************)
(* DualEKFAnalyzer.hybrid_ekf_pll_tracking (src/plltest2.py)               *)
(***************************************************************************)
\* Q_ekf: sigma_phi = 1e-6, sigma_w = 5e-3, sigma_A = 1e-3
Q_ekf ==
    LET sigma_phi == Rnd(SC, 1000000)
        sigma_w == Rnd(5 * SC, 1000)
        sigma_A == Rnd(SC, 1000)
    IN Diag((0 :> sigma_phi * sigma_phi) @@ (1 :> sigma_w * sigma_w)
            @@ (2 :> sigma_phi * sigma_phi) @@ (3 :> sigma_w * sigma_w)
            @@ (4 :> sigma_A * sigma_A) @@ (5 :> sigma_A * sigma_A))

\* separation_weight=0.01, the default of dual_ekf_tracking in src/plltest2.py
DefaultSeparationWeight == 1

\* the convergence test reads the last 50 innovations and bounds their mean by 0.05
InnovWindow == 50

InnovBound == 5

\* ekf_samples = int(n_samples * ekf_duration_fraction)
EkfSamples(n_samples, ekf_duration_fraction) == (n_samples * ekf_duration_fraction) \div SC

\* np.sqrt(P_ii) / (2 * np.pi) * 1000, for P_ii >= 0: the uncertainty in mHz
StdMilliHz(Pii) == Rnd(Sqrt(Pii) * SC * 1000, TWO_PI)

\* std < convergence_threshold_mhz; np.sqrt of a negative variance is nan,
\* and nan < threshold is False
StdBelow(Pii, convergence_threshold_mhz) ==
    Pii >= 0 /\ StdMilliHz(Pii) < convergence_threshold_mhz

\* np.sqrt(innov[-50:, 0]**2 + innov[-50:, 1]**2) of a non-empty innovation array
InnovMagnitudes(innov) ==
    LET w == LastSlice(innov, InnovWindow)
    IN [j \in 1 .. Len(w) |-> CxAbs(w[j][0], w[j][1])]

\* the test without its third conjunct: the uncertainties alone
ConvergedByUncertainty(final_P, innov, convergence_threshold_mhz) ==
    /\ StdBelow(final_P[1][1], convergence_threshold_mhz)
    /\ StdBelow(final_P[3][3], convergence_threshold_mhz)

\* converged = std_f1_mhz < threshold and std_f2_mhz < threshold and innov_magnitude < 0.05
Converged(final_P, innov, convergence_threshold_mhz) ==
    /\ StdBelow(final_P[1][1], convergence_threshold_mhz)
    /\ StdBelow(final_P[3][3], convergence_threshold_mhz)
    /\ Mean(InnovMagnitudes(innov)) < InnovBound

\* the first key of the EKF history, in its order, that the loop
\* `for key in ekf_result['history']` looks up in the PLL history and does not
\* find there; 0 when every key is found
RECURSIVE FirstMissingKey(_, _)
FirstMissingKey(j, pll_history) ==
    IF j > Len(EKFHistoryKeys) THEN 0
    ELSE IF EKFHistoryKeys[j] \notin {"x", "P", "K"}
            /\ EKFHistoryKeys[j] \notin DOMAIN pll_history
         THEN j
         ELSE FirstMissingKey(j + 1, pll_history)

\* combined_history: x, P, K of the EKF; every other key np.concatenate([ekf, pll])
CombineHistories(ekf_history, pll_history) ==
    [key \in DOMAIN ekf_history |->
        IF key \in {"x", "P", "K"} THEN ekf_history[key]
        ELSE ekf_history[key] \o pll_history[key]]

\* a tracker call made by the coordinator: the function, the samples and the
\* initial frequencies it was given
TrackerCall(fn, signal_data, f1_init, f2_init) ==
    [fn |-> fn, signal_data |-> signal_data, f1_init |-> f1_init, f2_init |-> f2_init]

\* the call: n_samples, ekf_samples, pll_samples, and the acquisition EKF entered
\* on signal_data[:ekf_samples]
HybridCall ==
    /\ args.op = "hybrid"
    /\ top.calls = 0
    /\ hyb.pc = "idle"
    /\ LET n_samples == Len(args.signal_data)
           ekf_samples == EkfSamples(n_samples, args.ekf_duration_fraction)
           acquisition == SliceTo(args.signal_data, ekf_samples)
       IN /\ hyb' = [pc |-> "acquire", n_samples |-> n_samples,
                     ekf_samples |-> ekf_samples,
                     pll_samples |-> n_samples - ekf_samples,
                     called |-> << TrackerCall("dual_ekf_tracking", acquisition,
                                               args.f1_init, args.f2_init) >>]
          /\ ekf' = dual_ekf_tracking(analyzer, acquisition,
                                      args.f1_init, args.f2_init, Some(Q_ekf),
                                      Some(DefaultR), None, args.track_amplitude,
                                      args.min_separation_hz, DefaultSeparationWeight)
    /\ top' = [top EXCEPT !.calls = @ + 1]
    /\ UNCHANGED << other, analyzer, args, pll >>

\* after the acquisition EKF: the convergence test, then the PLL entered on
\* signal_data[ekf_samples:] with the handoff state, or the EKF entered again
\* on the whole signal
HybridConvergence ==
    /\ hyb.pc = "acquire"
    /\ ekf.pc \in {"returned", "raised"}
    /\ IF ekf.pc = "raised"
       THEN /\ hyb' = [hyb EXCEPT !.pc = "raised"] @@ [raised |-> ekf.raised]
            /\ UNCHANGED << ekf, pll >>
       ELSE LET history == ekf.result.history
                final_state == history.x[Len(history.x)]
                final_P == history.P[Len(history.P)]
                converged == Converged(final_P, history.innov,
                                       args.convergence_threshold_mhz)
            IN IF Len(history.innov) = 0
               THEN /\ hyb' = [hyb EXCEPT !.pc = "raised"]
                              @@ [raised |-> "IndexError", ekf_result |-> ekf.result]
                    /\ UNCHANGED << ekf, pll >>
               ELSE IF converged /\ hyb.pll_samples > 0
               THEN /\ hyb' = [hyb EXCEPT !.pc = "tracking",
                                          !.called = Append(@, TrackerCall(
                                              "_dual_pll_tracking",
                                              SliceFrom(args.signal_data, hyb.ekf_samples),
                                              ToHz(final_state[1]), ToHz(final_state[3])))] @@
                              [converged |-> converged, ekf_result |-> ekf.result,
                               std_f1_mhz |-> StdMilliHz(final_P[1][1]),
                               std_f2_mhz |-> StdMilliHz(final_P[3][3])]
                    /\ pll' = dual_pll_tracking("plltest2", analyzer,
                                  SliceFrom(args.signal_data, hyb.ekf_samples),
                                  ToHz(final_state[1]), ToHz(final_state[3]),
                                  final_state[0], final_state[2],
                                  final_state[4], final_state[5],
                                  args.track_amplitude, args.min_separation_hz,
                                  HandoffLoopBw)
                    /\ ekf' = Idle
               ELSE /\ hyb' = [hyb EXCEPT !.pc = "rerun",
                                          !.called = Append(@, TrackerCall(
                                              "dual_ekf_tracking", args.signal_data,
                                              args.f1_init, args.f2_init))] @@
                              [converged |-> converged, ekf_result |-> ekf.result]
                    /\ ekf' = dual_ekf_tracking(analyzer, args.signal_data,
                                  args.f1_init, args.f2_init, Some(Q_ekf),
                                  Some(DefaultR), None, args.track_amplitude,
                                  args.min_separation_hz, DefaultSeparationWeight)
                    /\ pll' = pll
    /\ UNCHANGED << other, analyzer, args, top >>

\* after the PLL: the histories combined, the handoff marked, and `return`
HybridCombine ==
    /\ hyb.pc = "tracking"
    /\ pll.pc = "returned"
    /\ LET pll_result == pll.result
           missing == FirstMissingKey(1, pll_result.history)
       IN hyb' = IF missing # 0
                 THEN [hyb EXCEPT !.pc = "raised"]
                      @@ [raised |-> "KeyError", key |-> EKFHistoryKeys[missing]]
                 ELSE [hyb EXCEPT !.pc = "returned"]
                      @@ [result |->
                          [f1 |-> pll_result.f1, f2 |-> pll_result.f2,
                           beat |-> pll_result.beat,
                           A1 |-> pll_result.A1, A2 |-> pll_result.A2,
                           history |->
                              CombineHistories(hyb.ekf_result.history, pll_result.history)
                              @@ [handoff_sample |-> hyb.ekf_samples,
                                  handoff_converged |-> TRUE,
                                  std_f1_at_handoff |-> hyb.std_f1_mhz,
                                  std_f2_at_handoff |-> hyb.std_f2_mhz],
                           method |-> "hybrid_ekf_pll"]]
    /\ pll' = Idle
    /\ UNCHANGED << other, analyzer, args, top, ekf >>

\* the EKF-only return reporting the convergence test's own outcome as
\* handoff_converged
HybridEkfOnlyReportingTest ==
    /\ hyb.pc = "rerun"
    /\ ekf.pc \in {"returned", "raised"}
    /\ hyb' = IF ekf.pc = "raised"
              THEN [hyb EXCEPT !.pc = "raised"] @@ [raised |-> ekf.raised]
              ELSE [hyb EXCEPT !.pc = "returned"]
                   @@ [result |->
                       [ekf.result EXCEPT
                           !.history = @ @@ [handoff_sample |-> 0 - 1,
                                             handoff_converged |-> hyb.converged]]
                       @@ [method |-> "ekf_only"]]
    /\ ekf' = Idle
    /\ UNCHANGED << other, analyzer, args, top, pll >>

\* after the full-signal EKF: the handoff marked as not converged, and `return`
HybridEkfOnly ==
    /\ hyb.pc = "rerun"
    /\ ekf.pc \in {"returned", "raised"}
    /\ hyb' = IF ekf.pc = "raised"
              THEN [hyb EXCEPT !.pc = "raised"] @@ [raised |-> ekf.raised]
              ELSE [hyb EXCEPT !.pc = "returned"]
                   @@ [result |->
                       [ekf.result EXCEPT
                           !.history = @ @@ [handoff_sample |-> 0 - 1,
                                             handoff_converged |-> FALSE]]
                       @@ [method |-> "ekf_only"]]
    /\ ekf' = Idle
    /\ UNCHANGED << other, analyzer, args, top, pll >>

\* the coordinator returns to its caller, or its exception reaches the caller
HybridDone ==
    /\ hyb.pc \in {"returned", "raised"}
    /\ top' = [top EXCEPT !.returned =
                   Append(@, IF hyb.pc = "raised" THEN [raised |-> hyb.raised]
                                                  ELSE [raised |-> "", result |-> hyb.result])]
    /\ hyb' = Idle
    /\ UNCHANGED << other, analyzer, args, ekf, pll >>

(***************************************************************************)
(* The caller: the trackers called on their own                            *)
(***************************************************************************)
\* how many times the caller runs the EKF tracker on the same arguments
Runs == 2

\* analyzer.dual_ekf_tracking(signal_data, f1_init, f2_init, Q=..., R=..., P0=..., ...)
CallEKF ==
    /\ args.op = "ekf"
    /\ top.calls < Runs
    /\ Len(top.returned) = top.calls
    /\ top.calls > 0 => top.returned[top.calls].raised = ""
    /\ ekf.pc = "idle"
    /\ ekf' = dual_ekf_tracking(analyzer, args.signal_data, args.f1_init, args.f2_init,
                                args.Q, args.R, args.P0, args.track_amplitude,
                                args.min_separation_hz, args.separation_weight)
    /\ top' = [top EXCEPT !.calls = @ + 1]
    /\ UNCHANGED << other, analyzer, args, pll, hyb >>

\* dual_ekf_tracking returns to the caller, or its exception reaches the caller
EKFDone ==
    /\ args.op = "ekf"
    /\ ekf.pc \in {"returned", "raised"}
    /\ top' = [top EXCEPT !.returned =
                   Append(@, IF ekf.pc = "raised" THEN [raised |-> ekf.raised]
                                                  ELSE [raised |-> "", result |-> ekf.result])]
    /\ ekf' = Idle
    /\ UNCHANGED << other, analyzer, args, pll, hyb >>

\* analyzer._dual_pll_tracking(signal_data, f1_init, f2_init, A2_init=...,
\* track_amplitude=...) and DualPLLAnalyzer.dual_pll_with_tracking(signal_data,
\* f1_init, f2_init, ...): zero initial phases, A1 = 1.0, loop_bw = 0.5
CallPLL ==
    /\ args.op \in {"pll", "pll_test"}
    /\ top.calls = 0
    /\ pll.pc = "idle"
    /\ pll' = dual_pll_tracking(IF args.op = "pll" THEN "plltest2" ELSE "test", analyzer,
                                args.signal_data, args.f1_init, args.f2_init, 0, 0,
                                SC, args.A2_init, args.track_amplitude,
                                args.min_separation_hz, ColdLoopBw)
    /\ top' = [top EXCEPT !.calls = @ + 1]
    /\ UNCHANGED << other, analyzer, args, ekf, hyb >>

\* the PLL returns to the caller
PLLDone ==
    /\ args.op \in {"pll", "pll_test"}
    /\ pll.pc = "returned"
    /\ top' = [top EXCEPT !.returned = Append(@, [raised |-> "", result |-> pll.result])]
    /\ pll' = Idle
    /\ UNCHANGED << other, analyzer, args, ekf, hyb >>

(***************************************************************************)
(* The inputs explored                                                     *)
(***************************************************************************)
\* the longest sample sequence
MaxSamples == 3

\* complex baseband samples: 1.7 + 0j (two tones in phase), 0j
SampleSet == {Cx(170, 0), Cx(0, 0)}

SignalSet == UNION {[1 .. n -> SampleSet] : n \in 0 .. MaxSamples}

\* fs_baseband, in Hz
FsSet == {4 * SC}

\* (f1_init, f2_init) in Hz: equal, 0.25 Hz apart, 1 Hz apart and swapped
FreqPairs == {<< 0, 0 >>, << 0, 25 >>, << 100, 0 >>}

\* min_separation_hz = 0.5
MinSeparationSet == {50}

\* a caller's Q and P0 (with phase-amplitude cross terms), and R = 0
QGiven == Diag((0 :> 1) @@ (1 :> 25) @@ (2 :> 1) @@ (3 :> 25) @@ (4 :> 4) @@ (5 :> 4))

P0Given == [DefaultP0 EXCEPT ![0][4] = 200, ![4][0] = 200, ![2][5] = 200, ![5][2] = 200]

BaseArgs ==
    [op : {"ekf", "pll", "pll_test", "hybrid"},
     signal_data : SignalSet,
     freqs : FreqPairs,
     track_amplitude : BOOLEAN,
     min_separation_hz : MinSeparationSet]

\* the arguments of one call; the options an operation does not take stay
\* at one value
ArgsOf(b, Q, R, P0, separation_weight, A2_init, ekf_duration_fraction, convergence_threshold_mhz) ==
    [op |-> b.op, signal_data |-> b.signal_data, A2_init |-> A2_init,
     f1_init |-> b.freqs[1], f2_init |-> b.freqs[2],
     track_amplitude |-> b.track_amplitude,
     min_separation_hz |-> b.min_separation_hz,
     Q |-> Q, R |-> R, P0 |-> P0, separation_weight |-> separation_weight,
     ekf_duration_fraction |-> ekf_duration_fraction,
     convergence_threshold_mhz |-> convergence_threshold_mhz]

\* the caller's Q, R, P0: the defaults; a given Q and P0; R = 0
EKFOptions ==
    {<< None, None, None >>, << Some(QGiven), None, Some(P0Given) >>,
     << None, Some(0), None >>}

\* a sequence longer than the innovation window of the convergence test: two
\* silent samples, then the two tones in phase
LongSignal ==
    [j \in 1 .. InnovWindow + 2 |-> IF j <= 2 THEN Cx(0, 0) ELSE Cx(170, 0)]

\* the length of a sequence that does not divide into quarters
WindowSamples == 5

\* such a sequence: the two tones in phase on every other sample, silence
\* between
OddSignal ==
    [j \in 1 .. WindowSamples |-> IF j % 2 = 1 THEN Cx(170, 0) ELSE Cx(0, 0)]

\* the calls explored: the EKF with its options; _dual_pll_tracking with A2_init
\* 0.7 or 0.1 and dual_pll_with_tracking; the coordinator with
\* ekf_duration_fraction 0, 0.5 or 1 and a threshold of 1 mHz or 100 mHz, and
\* once over the long sequence; each tracker once over the odd sequence
ArgSet ==
    {ArgsOf(b, o[1], o[2], o[3], 50, Rnd(7 * SC, 10), 50, SC) :
        b \in {c \in BaseArgs : c.op = "ekf"}, o \in EKFOptions}
    \cup {ArgsOf(b, None, None, None, 50, A2_init, 50, SC) :
             b \in {c \in BaseArgs : c.op = "pll"}, A2_init \in {Rnd(7 * SC, 10), AmpFloor}}
    \cup {ArgsOf(b, None, None, None, 50, Rnd(7 * SC, 10), 50, SC) :
             b \in {c \in BaseArgs : c.op = "pll_test"}}
    \cup {ArgsOf(b, None, None, None, 50, Rnd(7 * SC, 10), fraction, threshold) :
             b \in {c \in BaseArgs : c.op = "hybrid"},
             fraction \in {0, 50, SC}, threshold \in {SC, 100 * SC}}
    \cup {ArgsOf([op |-> "hybrid", signal_data |-> LongSignal, freqs |-> << 0, 0 >>,
                  track_amplitude |-> FALSE, min_separation_hz |-> 50],
                 None, None, None, 50, Rnd(7 * SC, 10), SC, 100 * SC)}
    \cup {ArgsOf([op |-> o, signal_data |-> OddSignal, freqs |-> << 0, 25 >>,
                  track_amplitude |-> TRUE, min_separation_hz |-> 50],
                 None, None, None, 50, Rnd(7 * SC, 10), 50, SC) :
             o \in {"ekf", "pll", "pll_test"}}

Init ==
    /\ \E fs \in FsSet : analyzer = [fs |-> fs, dt |-> TimeStep(fs)]
    /\ args \in ArgSet
    /\ top = [calls |-> 0, returned |-> << >>]
    /\ ekf = Idle
    /\ pll = Idle
    /\ hyb = Idle
    /\ other = NoThread

Next ==
    \/ CallEKF \/ EKFLoop \/ EKFReturn \/ EKFDone
    \/ CallPLL \/ PLLLoop \/ PLLReturn \/ PLLDone
    \/ HybridCall \/ HybridConvergence \/ HybridCombine \/ HybridEkfOnly \/ HybridDone

Spec == Init /\ [][Next]_vars

(***************************************************************************)
(* Two threads of one caller, each making a call on the same analyzer and  *)
(* the same arrays.  One thread runs at a time; the interpreter may switch *)
(* to the other between any two steps.  top, ekf, pll, hyb and args.op are *)
(* those of the running thread, and `other` holds those of the suspended   *)
(* one: everything a call works on is a local of that call, while the      *)
(* analyzer and the argument arrays are the same objects for both.         *)
(***************************************************************************)
\* the longest sample sequence given to two threads
ThreadSamples == 2

\* the calls made from two threads: sequences of 1 .. ThreadSamples samples
\* that start with the two tones in phase, initial frequencies equal or
\* 0.25 Hz apart, amplitudes fixed, R at its default, a convergence threshold
\* of 100 mHz
ThreadArgSet ==
    {a \in ArgSet :
        /\ Len(a.signal_data) \in 1 .. ThreadSamples
        /\ a.signal_data[1] = Cx(170, 0)
        /\ a.f1_init = 0
        /\ ~a.track_amplitude
        /\ a.R = None
        /\ a.A2_init # AmpFloor
        /\ a.convergence_threshold_mhz = 100 * SC}

\* what the second thread calls
ThreadOps == {"ekf", "pll", "hybrid"}

InitThreads ==
    /\ \E fs \in FsSet : analyzer = [fs |-> fs, dt |-> TimeStep(fs)]
    /\ args \in ThreadArgSet
    /\ top = [calls |-> 0, returned |-> << >>]
    /\ ekf = Idle
    /\ pll = Idle
    /\ hyb = Idle
    /\ \E op \in ThreadOps :
           other = [op |-> op, top |-> [calls |-> 0, returned |-> << >>],
                    ekf |-> Idle, pll |-> Idle, hyb |-> Idle]

\* the interpreter suspends the running thread and resumes the other one
Switch ==
    /\ other # NoThread
    /\ other' = [op |-> args.op, top |-> top, ekf |-> ekf, pll |-> pll, hyb |-> hyb]
    /\ args' = [args EXCEPT !.op = other.op]
    /\ top' = other.top
    /\ ekf' = other.ekf
    /\ pll' = other.pll
    /\ hyb' = other.hyb
    /\ UNCHANGED analyzer

NextThreads == Next \/ Switch

SpecThreads == InitThreads /\ [][NextThreads]_vars

(***************************************************************************)
(* Properties                                                              *)
(***************************************************************************)
\* a phase in (-pi, pi]
InPhaseRange(p) == 0 - PI < p /\ p <= PI

\* the last entry of a non-empty series
Last(a) == a[Len(a)]

\* the per-sample series that the coordinator concatenates
PerSampleKeys == {"freq1", "freq2", "A1", "A2", "phase1", "phase2", "separation"}

\* the coordinator has finished a call whose acquisition segment passed the
\* convergence test with samples remaining for the PLL
ConvergedPathDone ==
    /\ hyb.pc \in {"returned", "raised"}
    /\ "converged" \in DOMAIN hyb
    /\ hyb.converged /\ hyb.pll_samples > 0

\* C1: whenever the acquisition EKF passes the convergence test and samples
\* remain for the PLL, the coordinator returns a history whose handoff_sample
\* is floor(ekf_duration_fraction * n_samples) and whose combined per-sample
\* series (freq1, freq2, A1, A2, phase1, phase2, separation) each have
\* n_samples + 1 entries.
C1_HandoffSampleAndLength ==
    ConvergedPathDone =>
        /\ hyb.pc = "returned"
        /\ hyb.result.history.handoff_sample
             = (hyb.n_samples * args.ekf_duration_fraction) \div SC
        /\ \A key \in PerSampleKeys :
               Len(hyb.result.history[key]) = hyb.n_samples + 1

\* R > 0, fs > 0 and 0 <= ekf_duration_fraction <= 1 (the coordinator passes
\* R = 0.01**2 to the EKF itself)
ValidHybridCall ==
    /\ args.op = "hybrid"
    /\ Len(args.signal_data) > 0
    /\ analyzer.fs > 0
    /\ 0 <= args.ekf_duration_fraction /\ args.ekf_duration_fraction <= SC

\* C2: for every non-empty sample sequence and valid configuration, the hybrid
\* coordinator never raises, and what it returns has method 'hybrid_ekf_pll'
\* or 'ekf_only': on the converged path, on the non-converged path, and when
\* the acquisition segment holds zero samples.
C2_HybridNeverRaises ==
    ValidHybridCall =>
        /\ hyb.pc # "raised"
        /\ hyb.pc = "returned" => hyb.result.method \in {"hybrid_ekf_pll", "ekf_only"}

\* the phases a History holds: phase1, phase2 and, in the EKF's, x[0] and x[2]
HistoryPhasesInRange(history) ==
    /\ \A j \in DOMAIN history.phase1 : InPhaseRange(history.phase1[j])
    /\ \A j \in DOMAIN history.phase2 : InPhaseRange(history.phase2[j])
    /\ "x" \in DOMAIN history =>
           \A j \in DOMAIN history.x :
               InPhaseRange(history.x[j][0]) /\ InPhaseRange(history.x[j][2])

\* the measurement noise of the call is positive
PositiveR == args.R = None \/ args.R[1] > 0

\* C3: every phase stored in History (phase1, phase2, x[0], x[2]) by the EKF
\* and by the PLL lies in (-pi, pi] after every processed sample, for every
\* valid configuration; in particular the EKF phase after x + K @ innov.
C3_PhasesWrapped ==
    (PositiveR /\ analyzer.fs > 0) =>
        /\ ekf.pc = "loop" => HistoryPhasesInRange(ekf.history)
        /\ ekf.pc = "returned" => HistoryPhasesInRange(ekf.result.history)
        /\ pll.pc = "loop" => HistoryPhasesInRange(pll.s.history)
        /\ pll.pc = "returned" => HistoryPhasesInRange(pll.result.history)

\* every amplitude a History holds is at least 0.1
HistoryAmplitudesFloored(history) ==
    /\ \A j \in DOMAIN history.A1 : history.A1[j] >= AmpFloor
    /\ \A j \in DOMAIN history.A2 : history.A2[j] >= AmpFloor

\* C4: with amplitude tracking enabled, A1 and A2 are >= 0.1 in every History
\* entry of the EKF and of the PLL, after any sequence of samples.
C4_AmplitudeFloor ==
    args.track_amplitude =>
        /\ ekf.pc = "loop" => HistoryAmplitudesFloored(ekf.history)
        /\ ekf.pc = "returned" => HistoryAmplitudesFloored(ekf.result.history)
        /\ pll.pc = "loop" => HistoryAmplitudesFloored(pll.s.history)
        /\ pll.pc = "returned" => HistoryAmplitudesFloored(pll.result.history)
        /\ \A j \in DOMAIN top.returned :
               top.returned[j].raised = ""
                   => HistoryAmplitudesFloored(top.returned[j].result.history)

\* the EKF's update left A2 below 0.1 and the floor raised it
C4_FloorActed ==
    /\ args.track_amplitude
    /\ ekf.pc = "loop" /\ ekf.k > 0
    /\ ekf.regularizer[1].after.x[5] < AmpFloor /\ ekf.x[5] = AmpFloor

\* R <= 0, fs <= 0, or an empty sample sequence
Degenerate ==
    \/ Len(args.signal_data) = 0
    \/ args.R # None /\ args.R[1] <= 0
    \/ analyzer.fs <= 0

\* C5: a degenerate configuration (R <= 0, fs <= 0, or an empty sequence) is
\* rejected by the EKF, the PLL and the coordinator before any filtering step:
\* no predict/update step runs and no result with a History is returned.
C5_DegenerateRejected ==
    Degenerate =>
        /\ ekf.pc = "loop" => ekf.k = 0
        /\ ekf.pc # "returned"
        /\ pll.pc = "loop" => pll.i = 0
        /\ pll.pc # "returned"
        /\ hyb.pc # "returned"
        /\ \A j \in DOMAIN top.returned : top.returned[j].raised # ""

\* the convergence test was evaluated on the acquisition EKF's History and
\* came out false
ConvergenceTestFailed ==
    /\ "ekf_result" \in DOMAIN hyb
    /\ Len(hyb.ekf_result.history.innov) > 0
    /\ ~Converged(Last(hyb.ekf_result.history.P), hyb.ekf_result.history.innov,
                  args.convergence_threshold_mhz)

\* the coordinator is past its convergence test, and the test failed or no
\* samples remain after the acquisition segment
EkfOnlyCase ==
    /\ hyb.pc \in {"tracking", "rerun", "returned", "raised"}
    /\ hyb.pll_samples = 0 \/ ConvergenceTestFailed

\* the coordinator has called the EKF a second time, on the entire sequence and
\* from the original guesses, has not called the PLL, and what it returns is
\* that run marked 'ekf_only', handoff_converged False, handoff_sample -1
EkfOnlyRun ==
    /\ hyb.pc \in {"rerun", "returned"}
    /\ pll.pc = "idle"
    /\ hyb.called
         = << TrackerCall("dual_ekf_tracking", SubSeq(args.signal_data, 1, hyb.ekf_samples),
                          args.f1_init, args.f2_init),
              TrackerCall("dual_ekf_tracking", args.signal_data,
                          args.f1_init, args.f2_init) >>
    /\ (hyb.pc = "rerun" /\ ekf.pc = "loop") =>
           /\ ekf.signal_data = args.signal_data
           /\ ekf.history.freq1[1] = args.f1_init
           /\ ekf.history.freq2[1] = args.f2_init
    /\ hyb.pc = "returned" =>
           /\ hyb.result.method = "ekf_only"
           /\ hyb.result.history.handoff_converged = FALSE
           /\ hyb.result.history.handoff_sample = 0 - 1
           /\ Len(hyb.result.history.freq1) = Len(args.signal_data) + 1
           /\ hyb.result.history.freq1[1] = args.f1_init
           /\ hyb.result.history.freq2[1] = args.f2_init

C7_ConvergedIff ==
    "converged" \in DOMAIN hyb =>
        LET history == hyb.ekf_result.history
            final_P == Last(history.P)
            n == Len(history.innov)
            m == IF n < 50 THEN n ELSE 50
            magnitude == [j \in 1 .. m |-> Sqrt(history.innov[n - m + j][0] * history.innov[n - m + j][0]
                                                + history.innov[n - m + j][1] * history.innov[n - m + j][1])]
        IN hyb.converged <=>
               /\ final_P[1][1] >= 0 /\ final_P[3][3] >= 0
               /\ Rnd(Sqrt(final_P[1][1]) * SC * 1000, TWO_PI) < args.convergence_threshold_mhz
               /\ Rnd(Sqrt(final_P[3][3]) * SC * 1000, TWO_PI) < args.convergence_threshold_mhz
               /\ Rnd(SeqSum(magnitude), m) < 5

\* convergence declared over more than 50 innovations whose mean magnitude is
\* not below 0.05 when all of them are counted: only the last 50 are small
C7_Declared ==
    /\ "converged" \in DOMAIN hyb
    /\ hyb.converged /\ Len(hyb.ekf_result.history.innov) > 50
    /\ Mean([j \in DOMAIN hyb.ekf_result.history.innov |->
                CxAbs(hyb.ekf_result.history.innov[j][0],
                      hyb.ekf_result.history.innov[j][1])]) >= 5

\* C8: on the converged path the PLL starts from exactly the last EKF History
\* state (phase1, phase2, w/2pi in Hz, A1, A2), is fed the samples
\* ekf_samples .. n_samples-1 in order while the EKF was fed 0 .. ekf_samples-1,
\* so that every sample is processed by exactly one tracker, with loop
\* bandwidth 0.2 Hz, below the cold-start 0.5 Hz.
C8_Handoff ==
    hyb.pc = "tracking" =>
        LET ekf_history == hyb.ekf_result.history
            final_state == Last(ekf_history.x)
            pll_history == IF pll.pc = "loop" THEN pll.s.history ELSE pll.result.history
        IN /\ pll_history.phase1[1] = final_state[0]
           /\ pll_history.phase2[1] = final_state[2]
           /\ pll_history.freq1[1] = Last(ekf_history.freq1)
           /\ pll_history.freq2[1] = Last(ekf_history.freq2)
           /\ pll_history.A1[1] = final_state[4]
           /\ pll_history.A2[1] = final_state[5]
           /\ Len(hyb.called) = 2
           /\ hyb.called[1].fn = "dual_ekf_tracking"
           /\ hyb.called[2].fn = "_dual_pll_tracking"
           /\ hyb.called[1].signal_data = SubSeq(args.signal_data, 1, hyb.ekf_samples)
           /\ hyb.called[2].signal_data
                = SubSeq(args.signal_data, hyb.ekf_samples + 1, hyb.n_samples)
           /\ hyb.called[1].signal_data \o hyb.called[2].signal_data = args.signal_data
           /\ Len(ekf_history.innov) = hyb.ekf_samples
           /\ pll.pc = "loop" =>
                  /\ pll.signal_data = hyb.called[2].signal_data
                  /\ Len(pll_history.error) = pll.i
           /\ pll.pc = "returned" => Len(pll_history.error) = hyb.pll_samples
           /\ pll.loop_bw = 20 /\ pll.loop_bw < ColdLoopBw

\* the PLL has processed the samples after a non-empty acquisition segment
C8_HandedOff ==
    /\ hyb.pc = "tracking" /\ pll.pc = "returned"
    /\ hyb.ekf_samples > 0 /\ hyb.pll_samples > 0
    /\ Len(pll.result.history.error) = hyb.pll_samples

\* C9: the separation regularizer is a no-op whenever |f2 - f1| >=
\* min_separation: in the EKF it leaves x and P unchanged, in the PLL it leaves
\* both phase errors unchanged, and applied again it returns its input.
C9_RegularizerNoOp ==
    /\ (ekf.pc = "loop" /\ ekf.regularizer # None) =>
           LET r == ekf.regularizer[1]
           IN Abs(r.before.x[3] - r.before.x[1]) >= ekf.min_separation_rad =>
                  /\ r.after.x = r.before.x
                  /\ r.after.P = r.before.P
                  /\ SeparationRegularizer(r.after.x, r.after.P, ekf.f1_init, ekf.f2_init,
                                           ekf.min_separation_rad, ekf.separation_weight)
                       = r.before
    /\ (pll.pc = "loop" /\ pll.s.regularizer # None) =>
           LET r == pll.s.regularizer[1]
           IN Abs(r.freq2 - r.freq1) >= pll.min_separation =>
                  /\ r.after = r.before
                  /\ LET again == PLLRegularizer(r.after.e1, r.after.e2, r.freq1, r.freq2,
                                                 pll.min_separation, FreqRegularization)
                     IN again.e1 = r.before.e1 /\ again.e2 = r.before.e2

\* the EKF's regularizer has run on a state whose tones are at least
\* min_separation apart, with a weight and a separation for which the push
\* would not vanish
C9_ApartInEKF ==
    /\ ekf.pc = "loop" /\ ekf.regularizer # None
    /\ Abs(ekf.regularizer[1].before.x[3] - ekf.regularizer[1].before.x[1])
         > ekf.min_separation_rad
    /\ RegularizationForce(Abs(ekf.regularizer[1].before.x[3] - ekf.regularizer[1].before.x[1]),
                           ekf.min_separation_rad, ekf.separation_weight) # 0

\* C10: running dual_ekf_tracking twice with identical samples, initial
\* frequencies and configuration yields identical History and identical
\* converged estimates: the first run leaves nothing behind that changes the
\* second.
C10_RunsAgree ==
    args.op = "ekf" =>
        \A i, j \in DOMAIN top.returned : top.returned[i] = top.returned[j]

\* two runs over a non-empty sequence have returned, the first having moved
\* the state away from its initial value
C10_RanTwice ==
    /\ args.op = "ekf" /\ Len(top.returned) >= 2
    /\ top.returned[1].raised = "" /\ top.returned[2].raised = ""
    /\ Len(args.signal_data) > 0
    /\ Last(top.returned[1].result.history.x) # top.returned[1].result.history.x[1]

\* the series of a history that hold one entry per state (the seed entry and
\* one per processed sample), and those that hold one entry per sample
StateSeries == {"x", "P", "freq1", "freq2", "A1", "A2", "phase1", "phase2", "separation"}

DiagnosticSeries ==
    {"y_pred", "innov", "error", "K", "phase_error1", "phase_error2", "reg_force"}

\* every state series of `history` has k + 1 entries and every per-sample
\* diagnostic series has k entries
HistoryLengths(history, k) ==
    \A key \in DOMAIN history :
        /\ key \in StateSeries \cup DiagnosticSeries
        /\ key \in StateSeries => Len(history[key]) = k + 1
        /\ key \in DiagnosticSeries => Len(history[key]) = k

\* C11: History starts with one seed entry and grows by one entry per
\* processed sample: after k samples every state series (x, P, freq1, freq2,
\* A1, A2, phase1, phase2, separation) has k + 1 entries and every per-sample
\* diagnostic series (innov, error, y_pred, K; phase_error1, phase_error2 in
\* the PLL) has k entries; a completed run over n samples returns n + 1 and n.
C11_HistoryLengths ==
    /\ ekf.pc = "loop" => HistoryLengths(ekf.history, ekf.k)
    /\ pll.pc = "loop" => HistoryLengths(pll.s.history, pll.i)
    /\ args.op \in {"ekf", "pll", "pll_test"} =>
           /\ ekf.pc = "returned" =>
                  HistoryLengths(ekf.result.history, Len(args.signal_data))
           /\ pll.pc = "returned" =>
                  HistoryLengths(pll.result.history, Len(args.signal_data))
           /\ \A r \in DOMAIN top.returned :
                  top.returned[r].raised = "" =>
                      HistoryLengths(top.returned[r].result.history, Len(args.signal_data))

\* a run of the EKF or of the PLL over MaxSamples samples has returned its
\* history to the caller
C11_RunCompleted ==
    /\ args.op \in {"ekf", "pll"}
    /\ Len(args.signal_data) = MaxSamples
    /\ top.returned # << >> /\ top.returned[1].raised = ""
    /\ Len(top.returned[1].result.history.freq1) = MaxSamples + 1

\* the runs of a tracker called on its own that returned to the caller
StandaloneResults ==
    IF args.op \in {"ekf", "pll", "pll_test"}
    THEN {top.returned[r].result : r \in {q \in DOMAIN top.returned : top.returned[q].raised = ""}}
    ELSE {}

\* the arithmetic mean of the last m entries of a series
MeanOfLast(a, m) == Rnd(SeqSum(SubSeq(a, Len(a) - m + 1, Len(a))), m)

\* the converged estimates of result r are the means of the last m entries of
\* its history (dual_pll_with_tracking returns no converged amplitudes)
ConvergedOverLast(r, m) ==
    /\ r.f1 = MeanOfLast(r.history.freq1, m)
    /\ r.f2 = MeanOfLast(r.history.freq2, m)
    /\ "A1" \in DOMAIN r => /\ r.A1 = MeanOfLast(r.history.A1, m)
                            /\ r.A2 = MeanOfLast(r.history.A2, m)

\* C12, with the window rounded down: for a run over n >= 1 samples the
\* converged f1, f2, A1, A2 are the arithmetic mean of the last
\* max(1, floor(n/4)) History entries; a single-sample input does not crash
\* and its converged estimate equals the one post-update state of that sample.
C12_MeanOverFloorQuarter ==
    Len(args.signal_data) >= 1 =>
        \A r \in StandaloneResults :
            ConvergedOverLast(r, Max(1, Len(args.signal_data) \div 4))

\* C12, with the window rounded up: for a run over n >= 1 samples the
\* converged f1, f2, A1, A2 are the arithmetic mean of the last ceil(n/4)
\* History entries; a single-sample input does not crash and its converged
\* estimate equals the one post-update state of that sample.
C12_MeanOverCeilQuarter ==
    Len(args.signal_data) >= 1 =>
        \A r \in StandaloneResults :
            /\ ConvergedOverLast(r, (Len(args.signal_data) + 3) \div 4)
            /\ Len(args.signal_data) = 1 =>
                   /\ r.f1 = Last(r.history.freq1) /\ r.f2 = Last(r.history.freq2)
                   /\ "A1" \in DOMAIN r =>
                          r.A1 = Last(r.history.A1) /\ r.A2 = Last(r.history.A2)

\* a run over five samples has returned, and its last two entries differ: the
\* mean over two entries is not the last entry
C12_FiveSamples ==
    /\ Len(args.signal_data) = WindowSamples
    /\ \E r \in StandaloneResults :
           /\ "A1" \in DOMAIN r
           /\ r.history.A1[Len(r.history.A1) - 1] # Last(r.history.A1)
           /\ r.A1 # Last(r.history.A1)

\* history `new` holds every entry of history `old`, unchanged, at the same
\* index
Extends(new, old) ==
    /\ DOMAIN new = DOMAIN old
    /\ \A key \in DOMAIN old :
           /\ Len(new[key]) >= Len(old[key])
           /\ SubSeq(new[key], 1, Len(old[key])) = old[key]

\* C13: once appended, a History entry is never modified by any later step
\* (the stored snapshots are unchanged by the later in-place updates of x and
\* P, the regularizer's scaling of P and the amplitude clamp included), and the
\* caller's P0, Q and sample sequence are unchanged when the run returns.
C13_HistoryKept ==
    [][/\ (ekf.pc = "loop" /\ ekf'.pc = "loop") => Extends(ekf'.history, ekf.history)
       /\ (ekf.pc = "loop" /\ ekf'.pc = "returned") => ekf'.result.history = ekf.history
       /\ (pll.pc = "loop" /\ pll'.pc = "loop") => Extends(pll'.s.history, pll.s.history)
       /\ (pll.pc = "loop" /\ pll'.pc = "returned") => pll'.result.history = pll.s.history
       /\ args' = args]_vars

\* the EKF has appended entries and then run a step in which the regularizer
\* scaled P and the amplitude clamp acted, leaving x and P different from the
\* snapshots of the step before
C13_SnapshotBehind ==
    /\ ekf.pc = "loop" /\ ekf.k >= 2
    /\ ekf.history.x[ekf.k] # ekf.x
    /\ ekf.history.P[ekf.k] # ekf.P
    /\ ekf.regularizer # None
    /\ ekf.regularizer[1].before.P # ekf.regularizer[1].after.P
    /\ ekf.regularizer[1].after.x # ekf.x

\* a tracker run by itself from frame f to its end: what it hands its caller
RECURSIVE EKFAlone(_)
EKFAlone(f) ==
    IF f.k = f.n_samples
    THEN [raised |-> "", result |-> TrackingResult(f.history, f.n_samples)]
    ELSE LET y == f.signal_data[f.k + 1]
             st == EKFStep(f.x, f.P, y, f.F, f.Q, f.R, f.track_amplitude, f.f1_init,
                           f.f2_init, f.min_separation_rad, f.separation_weight)
         IN IF st.raised # "" THEN [raised |-> st.raised]
            ELSE EKFAlone([f EXCEPT !.k = @ + 1, !.x = st.x, !.P = st.P,
                                    !.history = EKFAppendHistory(@, st.x, st.P, y,
                                                                 st.y_hat, st.innov, st.K)])

RECURSIVE PLLAlone(_, _)
PLLAlone(f, fs) ==
    IF f.i = f.n_samples
    THEN [raised |-> "", result |-> PLLResult(f.impl, f.s.history, f.n_samples)]
    ELSE PLLAlone([f EXCEPT !.i = @ + 1,
                            !.s = PLLStep(f.impl, @, f.signal_data[f.i + 1], f.f1_init,
                                          f.f2_init, f.gains, fs, f.track_amplitude,
                                          f.min_separation)], fs)

\* the coordinator run by itself on arguments a
HybridAlone(self, a) ==
    LET n_samples == Len(a.signal_data)
        ekf_samples == EkfSamples(n_samples, a.ekf_duration_fraction)
        acquired == EKFAlone(dual_ekf_tracking(self, SliceTo(a.signal_data, ekf_samples),
                        a.f1_init, a.f2_init, Some(Q_ekf), Some(DefaultR), None,
                        a.track_amplitude, a.min_separation_hz, DefaultSeparationWeight))
        history == acquired.result.history
        final_state == Last(history.x)
        tracked == PLLAlone(dual_pll_tracking("plltest2", self,
                        SliceFrom(a.signal_data, ekf_samples),
                        ToHz(final_state[1]), ToHz(final_state[3]),
                        final_state[0], final_state[2], final_state[4], final_state[5],
                        a.track_amplitude, a.min_separation_hz, HandoffLoopBw), self.fs)
        again == EKFAlone(dual_ekf_tracking(self, a.signal_data,
                        a.f1_init, a.f2_init, Some(Q_ekf), Some(DefaultR), None,
                        a.track_amplitude, a.min_separation_hz, DefaultSeparationWeight))
    IN IF acquired.raised # "" THEN [raised |-> acquired.raised]
       ELSE IF Len(history.innov) = 0 THEN [raised |-> "IndexError"]
       ELSE IF /\ Converged(Last(history.P), history.innov, a.convergence_threshold_mhz)
               /\ n_samples - ekf_samples > 0
       THEN IF FirstMissingKey(1, tracked.result.history) # 0
            THEN [raised |-> "KeyError"]
            ELSE [raised |-> "",
                  result |-> [f1 |-> tracked.result.f1, f2 |-> tracked.result.f2,
                              beat |-> tracked.result.beat,
                              A1 |-> tracked.result.A1, A2 |-> tracked.result.A2,
                              history |->
                                  CombineHistories(history, tracked.result.history)
                                  @@ [handoff_sample |-> ekf_samples,
                                      handoff_converged |-> TRUE,
                                      std_f1_at_handoff |-> StdMilliHz(Last(history.P)[1][1]),
                                      std_f2_at_handoff |-> StdMilliHz(Last(history.P)[3][3])],
                              method |-> "hybrid_ekf_pll"]]
       ELSE IF again.raised # "" THEN [raised |-> again.raised]
       ELSE [raised |-> "",
             result |-> [again.result EXCEPT
                            !.history = @ @@ [handoff_sample |-> 0 - 1,
                                              handoff_converged |-> FALSE]]
                        @@ [method |-> "ekf_only"]]

\* what call `op` on the caller's arguments hands back when nothing else runs
Alone(op) ==
    IF op = "ekf"
    THEN EKFAlone(dual_ekf_tracking(analyzer, args.signal_data, args.f1_init,
                      args.f2_init, args.Q, args.R, args.P0, args.track_amplitude,
                      args.min_separation_hz, args.separation_weight))
    ELSE IF op = "hybrid" THEN HybridAlone(analyzer, args)
    ELSE PLLAlone(dual_pll_tracking(IF op = "pll" THEN "plltest2" ELSE "test", analyzer,
                      args.signal_data, args.f1_init, args.f2_init, 0, 0, SC,
                      args.A2_init, args.track_amplitude, args.min_separation_hz,
                      ColdLoopBw), analyzer.fs)

\* every call that has come back to caller `t` making call `op` came back
\* with what the call hands back when run alone
ReturnedAsAlone(t, op) ==
    \A r \in DOMAIN t.returned : t.returned[r] = Alone(op)

\* C14: two tracker runs (EKF, PLL or hybrid) executed concurrently on the
\* same analyzer and the same input arrays, their steps interleaved in any
\* order, each produce the same History and result as when run alone.
C14_ThreadsAsAlone ==
    other # NoThread =>
        /\ ReturnedAsAlone(top, args.op)
        /\ ReturnedAsAlone(other.top, other.op)

\* both threads are inside the main loop of the EKF at once, at different
\* samples, the running one with a state that its passes have moved
C14_Interleaved ==
    /\ other # NoThread
    /\ ekf.pc = "loop" /\ other.ekf.pc = "loop"
    /\ ekf.k >= 1 /\ ekf.k < ekf.n_samples
    /\ other.ekf.k # ekf.k
    /\ ekf.x # ekf.history.x[1]

\* C15: every tracker run over a finite sample sequence terminates after
\* processing each sample exactly once, in index order (sample k + 1 is
\* processed only after sample k's History entry has been appended), with no
\* early exit, cancellation or skipped sample.
C15_EverySampleOnce ==
    /\ ekf.pc # "raised"
    /\ ekf.pc = "loop" =>
           /\ ekf.k <= ekf.n_samples
           /\ Len(ekf.history.x) = ekf.k + 1
    /\ pll.pc = "loop" =>
           /\ pll.i <= pll.n_samples
           /\ Len(pll.s.history.freq1) = pll.i + 1
    /\ \A r \in StandaloneResults :
           Len(r.history.error) = Len(args.signal_data)

\* the EKF has run a step, and in it the separation regularizer found the two
\* updated frequencies closer than min_separation_rad
RegularizerFired ==
    /\ ekf.pc = "loop" /\ ekf.regularizer # None
    /\ ekf.separation_weight > 0
    /\ Abs(ekf.regularizer[1].before.x[3] - ekf.regularizer[1].before.x[1])
         < ekf.min_separation_rad

\* the arithmetic of the push from frequencies w1, w2 to v1, v2: the force is
\* weight * (min - sep) / min, within 0 .. weight; each frequency moves by
\* force * min / 2 (to the nearest unit of the arithmetic), in opposite
\* directions, so the sum stays; the separation grows by twice that, strictly
\* when the force is not below the unit; and the sign of w2 - w1 stays
PushedApart(w1, w2, v1, v2, min_separation_rad, separation_weight) ==
    LET separation == Abs(w2 - w1)
        force == Rnd(separation_weight * (min_separation_rad - separation),
                     min_separation_rad)
        push == Abs(v1 - w1)
    IN /\ 0 <= force /\ force <= separation_weight
       /\ force = 0 => 2 * separation_weight * (min_separation_rad - separation)
                         < min_separation_rad
       /\ Abs(2 * SC * push - force * min_separation_rad) <= SC
       /\ v2 - w2 = w1 - v1
       /\ v1 + v2 = w1 + w2
       /\ Abs(v2 - v1) = separation + 2 * push
       /\ force > 0 => Abs(v2 - v1) > separation
       /\ w2 # w1 => Sign(v2 - v1) = Sign(w2 - w1)

\* C18: when the regularizer fires (|w2 - w1| < min_separation_rad, with
\* separation_weight > 0), force = separation_weight * (min_separation_rad -
\* separation) / min_separation_rad with 0 < force <= separation_weight, w1
\* and w2 are moved by force * min_separation_rad / 2 in opposite directions
\* so that w1 + w2 is unchanged, and the separation after the push is strictly
\* larger than before (separation + force * min_separation_rad), with the sign
\* of w2 - w1 preserved.
C18_PushSeparates ==
    RegularizerFired =>
        PushedApart(ekf.regularizer[1].before.x[1], ekf.regularizer[1].before.x[3],
                    ekf.regularizer[1].after.x[1], ekf.regularizer[1].after.x[3],
                    ekf.min_separation_rad, ekf.separation_weight)

\* the PLL has run a pass in which the separation regularizer found the two
\* frequencies exactly equal
PLLTie ==
    /\ pll.pc = "loop" /\ pll.s.regularizer # None
    /\ pll.min_separation > 0
    /\ pll.s.regularizer[1].freq1 = pll.s.regularizer[1].freq2

\* the EKF has run a step in which the regularizer found the two updated
\* frequencies exactly equal
EKFTie ==
    /\ RegularizerFired
    /\ ekf.regularizer[1].before.x[1] = ekf.regularizer[1].before.x[3]

\* quantity 2 went up from b2 to a2 and quantity 1 down from b1 to a1 exactly
\* when f2_init > f1_init, and the other way round exactly when f2_init < f1_init
DirectionFromInitialOrder(b1, b2, a1, a2, f1_init, f2_init) ==
    /\ (a2 > b2 /\ a1 < b1) <=> f2_init > f1_init
    /\ (a2 < b2 /\ a1 > b1) <=> f2_init < f1_init

\* C19: when the two frequencies are exactly equal, the push direction is
\* taken from sign(f2_init - f1_init), in the EKF and the PLL alike: tone 2 is
\* pushed up and tone 1 down iff f2_init > f1_init, and the opposite iff
\* f2_init < f1_init.
C19_TieBreakByInitialOrder ==
    /\ EKFTie =>
           DirectionFromInitialOrder(
               ekf.regularizer[1].before.x[1], ekf.regularizer[1].before.x[3],
               ekf.regularizer[1].after.x[1], ekf.regularizer[1].after.x[3],
               ekf.f1_init, ekf.f2_init)
    /\ PLLTie =>
           DirectionFromInitialOrder(
               pll.s.regularizer[1].before.e1, pll.s.regularizer[1].before.e2,
               pll.s.regularizer[1].after.e1, pll.s.regularizer[1].after.e2,
               pll.f1_init, pll.f2_init)

\* the EKF has run a step
EKFStepped == ekf.pc = "loop" /\ ekf.k >= 1 /\ ekf.regularizer # None

\* the predicted state and covariance of the step the EKF has just run, from
\* the entry the step before it left in the history
LastPredictedState == WrapPhases(PredictState(ekf.F, ekf.history.x[ekf.k]))

LastPredictedCov == PredictCov(ekf.F, ekf.history.P[ekf.k], ekf.Q)

\* C20: in each EKF step the regularizer acts on the post-update state
\* x + K * innov and before the covariance update; when it fires it changes
\* only x[1], x[3], P[1,1] and P[3,3] (the two variances multiplied by
\* 1 + force) and leaves the phases, the amplitudes and every other covariance
\* entry as they were; the amplitude floor is applied after the covariance
\* update.
C20_RegularizerFrame ==
    EKFStepped =>
        LET before == ekf.regularizer[1].before
            after == ekf.regularizer[1].after
            K == Last(ekf.history.K)
            H == Jacobian(LastPredictedState, ekf.track_amplitude)
            separation == Abs(before.x[3] - before.x[1])
            force == Rnd(ekf.separation_weight * (ekf.min_separation_rad - separation),
                         ekf.min_separation_rad)
        IN /\ before.x = StateUpdate(LastPredictedState, K, Last(ekf.history.innov))
           /\ before.P = LastPredictedCov
           /\ \A i \in Idx \ {1, 3} : after.x[i] = before.x[i]
           /\ \A i, j \in Idx :
                  (i # j \/ i \notin {1, 3}) => after.P[i][j] = before.P[i][j]
           /\ separation < ekf.min_separation_rad =>
                  /\ after.P[1][1] = Rnd(before.P[1][1] * (SC + force), SC)
                  /\ after.P[3][3] = Rnd(before.P[3][3] * (SC + force), SC)
           /\ ekf.P = CovUpdate(K, H, after.P)
           /\ ekf.x = AmplitudeFloor(after.x, ekf.track_amplitude)
           /\ Last(ekf.history.x) = ekf.x /\ Last(ekf.history.P) = ekf.P

\* a step in which the regularizer moved both frequencies and scaled both
\* variances, and the amplitude floor then raised an amplitude
C20_FiredAndFloored ==
    /\ EKFStepped /\ RegularizerFired
    /\ ekf.regularizer[1].after.x[1] # ekf.regularizer[1].before.x[1]
    /\ ekf.regularizer[1].after.x[3] # ekf.regularizer[1].before.x[3]
    /\ ekf.regularizer[1].after.P[1][1] # ekf.regularizer[1].before.P[1][1]
    /\ ekf.regularizer[1].after.P[3][3] # ekf.regularizer[1].before.P[3][3]
    /\ ekf.x # ekf.regularizer[1].after.x

\* every amplitude entry of `history` is the initial amplitude: 1.0 and 0.7
AmplitudesFrozen(history) ==
    /\ \A j \in DOMAIN history.A1 : history.A1[j] = SC
    /\ \A j \in DOMAIN history.A2 : history.A2[j] = Rnd(7 * SC, 10)

\* C21: with amplitude tracking disabled, the EKF's amplitude state is frozen:
\* A1 and A2 in every History entry equal their initial values (1.0 and 0.7)
\* for every input sequence and every admissible Q, R > 0 and initial
\* covariance P0, a caller-supplied P0 with non-zero phase-amplitude cross
\* terms included.
C21_AmplitudesFrozen ==
    (ekf.pc = "loop" /\ ~ekf.track_amplitude /\ PositiveR) =>
        AmplitudesFrozen(ekf.history)

\* C22: every hybrid run follows Acquiring -> (Converged -> Tracking |
\* NotConverged -> AcquiringFull): the PLL tracker starts only after the
\* acquisition EKF has consumed its whole segment and the convergence test
\* returned true with samples remaining; the full-sequence EKF re-run starts
\* only after the test returned false or no samples remain; exactly one of
\* the two follows each acquisition, and the result's method and
\* handoff_converged flag name the branch taken.
C22_HybridStateMachine ==
    /\ hyb.pc = "acquire" =>
           /\ Len(hyb.called) = 1
           /\ pll.pc = "idle"
    /\ hyb.pc = "tracking" =>
           /\ hyb.converged /\ hyb.pll_samples > 0
           /\ Len(hyb.ekf_result.history.innov) = hyb.ekf_samples
           /\ Len(hyb.called) = 2 /\ hyb.called[2].fn = "_dual_pll_tracking"
           /\ ekf.pc = "idle"
    /\ hyb.pc = "rerun" =>
           /\ ~hyb.converged \/ hyb.pll_samples = 0
           /\ Len(hyb.ekf_result.history.innov) = hyb.ekf_samples
           /\ Len(hyb.called) = 2 /\ hyb.called[2].fn = "dual_ekf_tracking"
           /\ pll.pc = "idle"
    /\ hyb.pc \in {"returned", "raised"} => Len(hyb.called) = 2
    /\ hyb.pc = "returned" =>
           IF hyb.called[2].fn = "_dual_pll_tracking"
           THEN /\ hyb.result.method = "hybrid_ekf_pll"
                /\ hyb.result.history.handoff_converged
           ELSE /\ hyb.result.method = "ekf_only"
                /\ ~hyb.result.history.handoff_converged

\* one gradient step on amplitude A with the regularization term pulling it
\* toward `target`, then the floor at 0.1
GradientStepToward(A, target, error, nco) ==
    LET dA == 0 - 2 * CxMul(CxConj(error), nco).re
              + Rnd(AmplitudeRegularization * (A - target), SC)
    IN Max(AmpFloor, A - Rnd(LearningRate * dA, SC))

\* the PLL has run a pass with amplitude tracking enabled
PLLTrackedAmplitudes == pll.pc = "loop" /\ pll.i >= 1 /\ pll.track_amplitude

\* the error of the pass the PLL has just run, from the entries the pass
\* before it left in the history
LastPLLError ==
    LET h == pll.s.history
    IN CxSub(pll.signal_data[pll.i],
             CxAdd(CxMul(CxReal(h.A1[pll.i]), NCO(h.phase1[pll.i])),
                   CxMul(CxReal(h.A2[pll.i]), NCO(h.phase2[pll.i]))))

\* C23: with amplitude tracking enabled, each PLL implementation updates the
\* amplitudes by one gradient step whose regularization term pulls A1 toward
\* 1.0 and A2 toward 0.7 (dA1 += reg * (A1 - 1.0), dA2 += reg * (A2 - 0.7))
\* and then floors each amplitude at 0.1.
C23_AmplitudeTargets ==
    PLLTrackedAmplitudes =>
        LET h == pll.s.history
        IN /\ pll.s.A1 = GradientStepToward(h.A1[pll.i], SC, LastPLLError,
                                            NCO(h.phase1[pll.i]))
           /\ pll.s.A2 = GradientStepToward(h.A2[pll.i], Rnd(7 * SC, 10), LastPLLError,
                                            NCO(h.phase2[pll.i]))

\* the phase errors of pass j of the PLL after regularization, from the
\* errors and the frequencies the history holds for that pass
RegularizedErrors(j) ==
    PLLRegularizer(pll.s.history.phase_error1[j], pll.s.history.phase_error2[j],
                   pll.s.history.freq1[j], pll.s.history.freq2[j],
                   pll.min_separation, FreqRegularization)

\* C24: at every PLL step each tone's frequency equals f_i_init + g1 * e_i +
\* g2 * (sum of all phase errors e_i seen so far, the current one included,
\* after regularization), where f_i_init is the run's initial frequency (the
\* handoff frequency in hybrid mode) and g1, g2 are computed once from loop
\* bandwidth and damping before the loop and never change during the run.
C24_LoopFilter ==
    (pll.pc = "loop" /\ pll.i >= 1) =>
        LET sum1 == SeqSum([j \in 1 .. pll.i |-> RegularizedErrors(j).e1])
            sum2 == SeqSum([j \in 1 .. pll.i |-> RegularizedErrors(j).e2])
            e == RegularizedErrors(pll.i)
        IN /\ pll.gains = LoopGains(pll.loop_bw, analyzer.fs)
           /\ pll.s.freq1 = pll.f1_init + Rnd(pll.gains.g1 * e.e1, SC)
                                        + Rnd(pll.gains.g2 * sum1, SC)
           /\ pll.s.freq2 = pll.f2_init + Rnd(pll.gains.g1 * e.e2, SC)
                                        + Rnd(pll.gains.g2 * sum2, SC)
           /\ pll.f1_init = pll.s.history.freq1[1]
           /\ pll.f2_init = pll.s.history.freq2[1]
           /\ hyb.pc = "tracking" =>
                  /\ pll.f1_init = ToHz(Last(hyb.ekf_result.history.x)[1])
                  /\ pll.f2_init = ToHz(Last(hyb.ekf_result.history.x)[3])

\* the PLL has run two passes or more, the regularizer changed the phase
\* errors of the last one, and the sum of the errors is not the last error
C24_Integrated ==
    /\ pll.pc = "loop" /\ pll.i >= 2
    /\ pll.s.regularizer[1].before # pll.s.regularizer[1].after
    /\ pll.s.phase_error1_integral # pll.s.regularizer[1].after.e1
    /\ pll.s.freq1 # pll.f1_init

\* M - M^T
Skew(M) == Array([i \in Idx |-> Array([j \in Idx |-> M[i][j] - M[j][i]])])

\* the covariance the last EKF pass would have recorded had the regularizer
\* left P alone between the gain computation and P <- (I - K H) P
LastUnscaledUpdate ==
    CovUpdate(Last(ekf.history.K), Jacobian(LastPredictedState, ekf.track_amplitude),
              ekf.regularizer[1].before.P)

RECURSIVE PLLAfter(_, _, _)
PLLAfter(f, fs, n) ==
    IF n = 0 \/ f.i = f.n_samples
    THEN f
    ELSE PLLAfter([f EXCEPT !.i = @ + 1,
                            !.s = PLLStep(f.impl, @, f.signal_data[f.i + 1], f.f1_init,
                                          f.f2_init, f.gains, fs, f.track_amplitude,
                                          f.min_separation)], fs, n - 1)

\* the six state histories of a PLL run
PLLStateHistories(h) ==
    [freq1 |-> h.freq1, freq2 |-> h.freq2, phase1 |-> h.phase1, phase2 |-> h.phase2,
     A1 |-> h.A1, A2 |-> h.A2]

\* the run of the other PLL implementation on the inputs of the running one,
\* taken as far as the running one has come
OtherPLL ==
    PLLAfter(dual_pll_tracking(IF pll.impl = "test" THEN "plltest2" ELSE "test",
                               analyzer, pll.signal_data, pll.f1_init, pll.f2_init,
                               0, 0, SC, Rnd(7 * SC, 10), pll.track_amplitude,
                               pll.min_separation, ColdLoopBw), analyzer.fs, pll.i)

\* a standalone PLL call with zero initial phases, amplitudes 1.0 / 0.7 and
\* the cold-start loop bandwidth is in its loop
StandalonePLLRuns ==
    /\ args.op \in {"pll", "pll_test"} /\ pll.pc = "loop"
    /\ pll.loop_bw = ColdLoopBw
    /\ pll.s.history.A1[1] = SC /\ pll.s.history.A2[1] = Rnd(7 * SC, 10)
    /\ pll.s.history.phase1[1] = 0 /\ pll.s.history.phase2[1] = 0

\* C26: the hybrid module's PLL (_dual_pll_tracking) and the standalone
\* DualPLLAnalyzer.dual_pll_with_tracking are equivalent: for identical
\* samples, initial frequencies, zero initial phases, amplitudes 1.0 / 0.7,
\* minimum separation and loop bandwidth they produce identical freq1, freq2,
\* phase1, phase2, A1 and A2 histories, both with amplitude tracking on and
\* with it off.
C26_SamePLLHistories ==
    StandalonePLLRuns =>
        PLLStateHistories(pll.s.history) = PLLStateHistories(OtherPLL.s.history)

\* the coordinator is running, or has returned, the EKF over the whole
\* sequence after the acquisition run over the leading segment
Rerunning ==
    \/ hyb.pc = "rerun" /\ ekf.pc \in {"loop", "returned"}
    \/ hyb.pc = "returned" /\ hyb.result.method = "ekf_only"

\* the History of the full-sequence run, as far as it has come
RerunHistory ==
    IF hyb.pc = "returned" THEN hyb.result.history
    ELSE IF ekf.pc = "loop" THEN ekf.history ELSE ekf.result.history

\* the first n entries of a series
Leading(series, n) == SubSeq(series, 1, n)

\* C27: the EKF tracker is a causal fold: the History entry at index k+1
\* depends only on the initial guesses, the configuration and samples 0..k,
\* so the hybrid coordinator's full-sequence EKF re-run reproduces, in its
\* first ekf_samples + 1 History entries, exactly the History of the
\* acquisition run over the leading segment.
C27_RerunReproducesAcquisition ==
    Rerunning =>
        LET acquisition == hyb.ekf_result.history
            rerun == RerunHistory
            done == Len(rerun.x) - 1
            m == IF done < hyb.ekf_samples THEN done ELSE hyb.ekf_samples
        IN /\ Len(acquisition.x) = hyb.ekf_samples + 1
           /\ hyb.pc = "returned" => done = hyb.n_samples
           /\ \A key \in StateSeries \cap DOMAIN acquisition :
                  Leading(rerun[key], m + 1) = Leading(acquisition[key], m + 1)
           /\ \A key \in DiagnosticSeries \cap DOMAIN acquisition :
                  Leading(rerun[key], m) = Leading(acquisition[key], m)

\* the coordinator has returned the re-run over a sequence that is longer
\* than the acquisition segment and whose next sample differs from the last
\* one of the segment
C27_RerunPastAcquisition ==
    /\ hyb.pc = "returned" /\ hyb.result.method = "ekf_only"
    /\ hyb.ekf_samples >= 1 /\ hyb.n_samples > hyb.ekf_samples
    /\ args.signal_data[hyb.ekf_samples + 1] # args.signal_data[hyb.ekf_samples]
    /\ Last(hyb.result.history.x) # Last(hyb.ekf_result.history.x)

\* the standalone PLL of DualPLLAnalyzer has run a pass with amplitude
\* tracking disabled
FixedAmplitudePasses ==
    pll.pc = "loop" /\ pll.impl = "test" /\ ~pll.track_amplitude /\ pll.i >= 1

\* the regularizer has not fired since the start of the run
NeverRegularized ==
    FixedAmplitudePasses /\ \A j \in 1 .. pll.i : pll.s.history.reg_force[j] = 0

\* C28: in the standalone PLL (DualPLLAnalyzer.dual_pll_with_tracking) with
\* amplitude tracking disabled, the signal estimate a1 * nco1 + a2 * nco2
\* equals twice the sample, so the error is the negated sample and both
\* phase-error discriminants are zero for every sample (in exact arithmetic;
\* the oscillators of the fixed-point grid have |nco|^2 = 1 to within 3%, so
\* here the discriminants are zero to within 3% of |sample|^2 and the recorded
\* magnitude of the error is |sample| to within 3%, each plus one unit of the
\* grid); consequently, on every step where the regularizer does not fire
\* from the start of the run, freq1 and freq2 stay equal to f1_init and
\* f2_init regardless of the input signal.
C28_CorrelationCancels ==
    FixedAmplitudePasses =>
        /\ \A j \in 1 .. pll.i :
               LET sample == pll.signal_data[j]
                   power == sample.re * sample.re + sample.im * sample.im
                   magnitude == CxAbs(sample.re, sample.im)
               IN /\ Abs(pll.s.history.phase_error1[j]) * 100 * SC
                         <= 3 * power + 100 * SC
                  /\ Abs(pll.s.history.phase_error2[j]) * 100 * SC
                         <= 3 * power + 100 * SC
                  /\ Abs(pll.s.history.error[j] - magnitude) * 100
                         <= 3 * magnitude + 100
        /\ NeverRegularized =>
               \A j \in 1 .. pll.i + 1 : /\ pll.s.history.freq1[j] = pll.f1_init
                                         /\ pll.s.history.freq2[j] = pll.f2_init

\* two passes without the regularizer, the second over a sample that is not
\* zero with an oscillator that has left phase zero
C28_QuietOverSignal ==
    /\ NeverRegularized /\ pll.i >= 2
    /\ pll.signal_data[2] # Cx(0, 0)
    /\ pll.s.history.phase1[2] # 0

\* the regularizer ran on updated frequencies that are equal, in a run whose
\* initial guesses are equal too
EKFUnorderedTie == EKFTie /\ ekf.f1_init = ekf.f2_init

\* C29: in the EKF regularizer, when the updated w1 and w2 are exactly equal
\* and the initial guesses are also equal (f1_init = f2_init), the computed
\* sign is 0, so neither frequency is moved, yet P[1,1] and P[3,3] are still
\* multiplied by (1 + separation_weight); the two frequencies are therefore
\* not separated by the regularizer in that state.
C29_TieLeftInPlace ==
    EKFUnorderedTie =>
        LET before == ekf.regularizer[1].before
            after == ekf.regularizer[1].after
        IN /\ Sign(before.x[3] - before.x[1]) = 0
           /\ Sign(ekf.f2_init - ekf.f1_init) = 0
           /\ after.x = before.x
           /\ after.x[1] = after.x[3]
           /\ Last(ekf.history.separation) = 0
           /\ after.P[1][1] = Rnd(before.P[1][1] * (SC + ekf.separation_weight), SC)
           /\ after.P[3][3] = Rnd(before.P[3][3] * (SC + ekf.separation_weight), SC)

\* such a tie with both frequency variances enlarged
C29_TieInflated ==
    /\ EKFUnorderedTie
    /\ ekf.regularizer[1].after.P[1][1] > ekf.regularizer[1].before.P[1][1]
    /\ ekf.regularizer[1].after.P[3][3] > ekf.regularizer[1].before.P[3][3]

=============================================================================
